---- MODULE Spec2Model ----
(***************************************************************************)
(* Cost calculation engine (RatesCalculator, PoliciesEngine,               *)
(* BlockCostCalculator, ProjectAggregator, CostModelEngine) as a state     *)
(* machine.  Numbers are JavaScript numbers: exact rationals extended with *)
(* Infinity, -Infinity and NaN.  Rounding of binary floating point and the *)
(* sign of zero are not tracked; an irrational power (Math.pow with a      *)
(* fractional exponent) is followed to three decimals.                     *)
(***************************************************************************)
EXTENDS Integers, Sequences, FiniteSets, TLC

VARIABLES
  config,          \* the configuration object handed to the constructor (held by reference)
  snapshot,        \* history: the value of config when the engine was constructed
  equipmentRates,  \* BlockCostCalculator.equipmentRates, computed in the constructor
  laborRates,      \* BlockCostCalculator.laborRates, computed in the constructor
  now,             \* wall clock, a calendar date yyyymmdd
  call,            \* the last call made on the engine, with its arguments and outcome
  first,           \* history: per block id, the outcome of the first calculateBlock call
  editor           \* the mounted CostModelConfigurator: its props and its state

vars == <<config, snapshot, equipmentRates, laborRates, now, call, first, editor>>

-----------------------------------------------------------------------------
(* JavaScript number arithmetic                                            *)

Abs(x) == IF x < 0 THEN -x ELSE x

RECURSIVE GCD(_, _)
GCD(a, b) == IF b = 0 THEN a ELSE GCD(b, a % b)

\* the finite number n/d (d # 0), in lowest terms with a positive denominator
Rat(n, d) ==
  LET s == IF d < 0 THEN -1 ELSE 1
      g == GCD(Abs(n), Abs(d))
  IN  [k |-> "fin", n |-> (s * n) \div g, d |-> (s * d) \div g]

\* (n1/d1) * (n2/d2), reduced across before multiplying
RatMul(n1, d1, n2, d2) ==
  LET g1 == GCD(Abs(n1), Abs(d2))
      g2 == GCD(Abs(n2), Abs(d1))
      h1 == IF g1 = 0 THEN 1 ELSE g1
      h2 == IF g2 = 0 THEN 1 ELSE g2
  IN  Rat((n1 \div h1) * (n2 \div h2), (d1 \div h2) * (d2 \div h1))

Num(n) == [k |-> "fin", n |-> n, d |-> 1]
INF == [k |-> "inf", n |-> 0, d |-> 1]
NINF == [k |-> "ninf", n |-> 0, d |-> 1]
NAN == [k |-> "nan", n |-> 0, d |-> 1]

IsNaN(a) == a.k = "nan"
IsFinite(a) == a.k = "fin"
Sign(a) ==
  IF a.k = "inf" THEN 1
  ELSE IF a.k = "ninf" THEN -1
  ELSE IF a.n > 0 THEN 1 ELSE IF a.n < 0 THEN -1 ELSE 0

\* a + b
NAdd(a, b) ==
  IF IsNaN(a) \/ IsNaN(b) THEN NAN
  ELSE IF IsFinite(a) /\ IsFinite(b) THEN
    \* over the least common denominator; what is left to cancel divides g
    LET g == GCD(a.d, b.d)
        n == a.n * (b.d \div g) + b.n * (a.d \div g)
        h == GCD(Abs(n), g)
    IN  [k |-> "fin", n |-> n \div h, d |-> (a.d \div g) * (b.d \div h)]
  ELSE IF IsFinite(a) THEN b
  ELSE IF IsFinite(b) THEN a
  ELSE IF a.k = b.k THEN a ELSE NAN

\* -a
NNeg(a) ==
  IF IsNaN(a) THEN NAN
  ELSE IF a.k = "inf" THEN NINF
  ELSE IF a.k = "ninf" THEN INF
  ELSE [k |-> "fin", n |-> -a.n, d |-> a.d]

\* a - b
NSub(a, b) == NAdd(a, NNeg(b))

\* a * b
NMul(a, b) ==
  IF IsNaN(a) \/ IsNaN(b) THEN NAN
  ELSE IF IsFinite(a) /\ IsFinite(b) THEN RatMul(a.n, a.d, b.n, b.d)
  ELSE IF Sign(a) * Sign(b) = 0 THEN NAN
  ELSE IF Sign(a) * Sign(b) > 0 THEN INF ELSE NINF

\* a / b
NDiv(a, b) ==
  IF IsNaN(a) \/ IsNaN(b) THEN NAN
  ELSE IF IsFinite(b) THEN
    IF b.n = 0 THEN
      (IF Sign(a) = 0 THEN NAN ELSE IF Sign(a) > 0 THEN INF ELSE NINF)
    ELSE IF IsFinite(a) THEN RatMul(a.n, a.d, b.d, b.n)
    ELSE IF Sign(a) * Sign(b) > 0 THEN INF ELSE NINF
  ELSE IF IsFinite(a) THEN Num(0) ELSE NAN

\* a < b, a <= b, a > b, a >= b, a === b (every comparison with NaN is false)
RECURSIVE FracLt(_, _, _, _)
\* n1/d1 < n2/d2 for positive d1, d2: by whole parts, then by the remainders
FracLt(n1, d1, n2, d2) ==
  IF n1 \div d1 # n2 \div d2 THEN n1 \div d1 < n2 \div d2
  ELSE IF n2 % d2 = 0 THEN FALSE
  ELSE IF n1 % d1 = 0 THEN TRUE
  ELSE FracLt(d2, n2 % d2, d1, n1 % d1)

NLt(a, b) ==
  /\ ~IsNaN(a) /\ ~IsNaN(b)
  /\ IF IsFinite(a) /\ IsFinite(b) THEN FracLt(a.n, a.d, b.n, b.d)
     ELSE IF a.k = b.k THEN FALSE
     ELSE a.k = "ninf" \/ b.k = "inf"
NEq(a, b) == ~IsNaN(a) /\ ~IsNaN(b) /\ a = b
NLe(a, b) == NLt(a, b) \/ NEq(a, b)
NGt(a, b) == NLt(b, a)
NGe(a, b) == NLe(b, a)

\* truthiness of a number: 0 and NaN are falsy
Truthy(a) == ~IsNaN(a) /\ ~(IsFinite(a) /\ a.n = 0)
\* a || b
OrElse(a, b) == IF Truthy(a) THEN a ELSE b

\* Math.abs(a)
NAbs(a) == IF Sign(a) < 0 THEN NNeg(a) ELSE a

\* an array with every element computed: the array as push and map leave it
Stored(array) == SubSeq(array, 1, Len(array))

\* array.reduce((sum, x) => sum + x, 0) over a sequence of numbers
RECURSIVE NSumFrom(_, _, _, _)
\* sum + s[lo] + ... + s[hi], added in order: the first half of the elements,
\* and onto their sum the rest
NSumFrom(s, sum, lo, hi) ==
  IF lo > hi THEN sum
  ELSE IF lo = hi THEN NAdd(sum, s[lo])
  ELSE CHOOSE total \in {NSumFrom(s, half, ((lo + hi) \div 2) + 1, hi) :
                           half \in {NSumFrom(s, sum, lo, (lo + hi) \div 2)}} : TRUE
NSumTo(s, k) == NSumFrom(s, Num(0), 1, k)
NSum(s) == NSumTo(s, Len(s))

-----------------------------------------------------------------------------
(* RatesCalculator                                                         *)

\* rates[c] of the FX table: undefined (here NaN, equally falsy) without an entry
RateOf(rates, c) == IF c \in DOMAIN rates THEN rates[c] ELSE NAN

\* getFXRate without the "|| 1" fallbacks: a missing entry is undefined
getFXRateNoFallback(cfg, from, to) ==
  LET rates == cfg.fxRates.rates IN
  IF from = to THEN Num(1)
  ELSE IF from = "USD" THEN RateOf(rates, to)
  ELSE IF to = "USD" THEN NDiv(Num(1), RateOf(rates, from))
  ELSE NMul(NDiv(Num(1), RateOf(rates, from)), RateOf(rates, to))

\* getFXRate with the table read as USD per unit of currency on the way to USD
getFXRateNoReciprocal(cfg, from, to) ==
  LET rates == cfg.fxRates.rates IN
  IF from = to THEN Num(1)
  ELSE IF from = "USD" THEN OrElse(RateOf(rates, to), Num(1))
  ELSE IF to = "USD" THEN OrElse(RateOf(rates, from), Num(1))
  ELSE NMul(OrElse(RateOf(rates, from), Num(1)), OrElse(RateOf(rates, to), Num(1)))

getFXRate(cfg, from, to) ==
  LET rates == cfg.fxRates.rates IN
  IF from = to THEN Num(1)
  ELSE IF from = "USD" THEN OrElse(RateOf(rates, to), Num(1))
  ELSE IF to = "USD" THEN NDiv(Num(1), OrElse(RateOf(rates, from), Num(1)))
  ELSE NMul(NDiv(Num(1), OrElse(RateOf(rates, from), Num(1))),
            OrElse(RateOf(rates, to), Num(1)))

hoursPerDay == 20
daysPerMonth == 25
daysPerYear == 300
\* the maintenance share read as a whole number of times the capital
maintenancePercentWhole == Rat(5, 1)
maintenancePercent == Rat(5, 100)
insurancePercent == Rat(2, 100)

EquipmentRateOf(cfg, item) ==
  LET fxRate == getFXRate(cfg, item.currency, cfg.calculatorSettings.projectCurrency)
      costInProjectCurrency == NMul(item.baseCost, fxRate)
      depreciableValue ==
        NMul(costInProjectCurrency, NSub(Num(1), NDiv(item.salvageValue, Num(100))))
      annualDepreciation == NDiv(depreciableValue, item.usefulLife.years)
      annualMaintenance == NMul(costInProjectCurrency, maintenancePercent)
      annualInsurance == NMul(costInProjectCurrency, insurancePercent)
      totalAnnualCost == NAdd(NAdd(annualDepreciation, annualMaintenance), annualInsurance)
  IN  [itemCode |-> item.itemCode,
       costPerYear |-> totalAnnualCost,
       costPerMonth |-> NDiv(totalAnnualCost, Num(12)),
       costPerDay |-> NDiv(totalAnnualCost, Num(daysPerYear)),
       costPerHour |-> NDiv(totalAnnualCost, Num(daysPerYear * hoursPerDay)),
       depreciationPerHour |-> NDiv(annualDepreciation, Num(daysPerYear * hoursPerDay)),
       maintenancePerHour |-> NDiv(annualMaintenance, Num(daysPerYear * hoursPerDay)),
       hoursPerDay |-> hoursPerDay,
       daysPerMonth |-> daysPerMonth,
       utilizationAssumption |-> cfg.projectParameters.availability.planned]

calculateEquipmentRates(cfg) ==
  [i \in 1..Len(cfg.equipmentCatalog.items) |->
     EquipmentRateOf(cfg, cfg.equipmentCatalog.items[i])]

hoursPerYear == 2080

LaborRateOf(cfg, role) ==
  LET fxRate == getFXRate(cfg, role.currency, cfg.calculatorSettings.projectCurrency)
      baseAnnual == NMul(role.annualRate, fxRate)
      loadedAnnual == NMul(baseAnnual, role.burdenRate)
      loadedHourly == NDiv(loadedAnnual, Num(hoursPerYear))
      effectiveHourly == NDiv(loadedHourly, role.utilizationFactor)
  IN  [roleCode |-> role.roleCode,
       loadedHourlyRate |-> loadedHourly,
       loadedDailyRate |-> NMul(loadedHourly, Num(8)),
       loadedMonthlyRate |-> NDiv(loadedAnnual, Num(12)),
       baseRate |-> NDiv(baseAnnual, Num(hoursPerYear)),
       benefits |-> NDiv(NMul(baseAnnual, NSub(role.burdenRate, Num(1))), Num(hoursPerYear)),
       overhead |-> Num(0),
       effectiveHourlyRate |-> effectiveHourly]

calculateLaborRates(cfg) ==
  [i \in 1..Len(cfg.laborCatalog.roles) |-> LaborRateOf(cfg, cfg.laborCatalog.roles[i])]

Scenario(name, multiplier, probability) ==
  [name |-> name, multiplier |-> multiplier, probability |-> probability]

\* calculateFuelRates(): the two fixed records; diesel alone has a carbon cost
calculateFuelRates ==
  << [fuelType |-> "diesel", baseCostPerUnit |-> Rat(135, 100), unit |-> "liter",
      scenarios |-> << Scenario("low", Rat(8, 10), Rat(15, 100)),
                       Scenario("base", Num(1), Rat(5, 10)),
                       Scenario("high", Rat(13, 10), Rat(25, 100)),
                       Scenario("extreme", Rat(18, 10), Rat(1, 10)) >>,
      carbonCostPerUnit |-> Rat(12, 100)],
     [fuelType |-> "electricity", baseCostPerUnit |-> Rat(12, 100), unit |-> "kWh",
      scenarios |-> << Scenario("low", Rat(9, 10), Rat(2, 10)),
                       Scenario("base", Num(1), Rat(6, 10)),
                       Scenario("high", Rat(12, 10), Rat(15, 100)),
                       Scenario("extreme", Rat(15, 10), Rat(5, 100)) >>] >>

-----------------------------------------------------------------------------
(* PoliciesEngine                                                          *)

\* new Date('2099-12-31'), dates being yyyymmdd
Date2099 == 20991231
\* the absent validTo of a margin rule
NoDate == 0

\* validTo ? new Date(validTo) : new Date('2099-12-31')
ValidToOf(r) == IF r.validTo # NoDate THEN r.validTo ELSE Date2099

MarginRuleMatches(r, costCategory, date) ==
  r.costCategory = costCategory /\ date >= r.validFrom /\ date <= ValidToOf(r)

\* rules.find(...): the index of the first matching rule, 0 when there is none
FindMarginRule(cfg, costCategory, date) ==
  LET rules == cfg.marginRules.rules
      hits == {i \in 1..Len(rules) : MarginRuleMatches(rules[i], costCategory, date)}
  IN  IF hits = {} THEN 0 ELSE CHOOSE i \in hits : \A j \in hits : i <= j

\* getMargin(costCategory, date); the calculator passes no date: date = new Date()
getMargin(cfg, costCategory, date) ==
  LET i == FindMarginRule(cfg, costCategory, date)
  IN  IF i = 0 THEN Num(0) ELSE OrElse(cfg.marginRules.rules[i].marginPercent, Num(0))

\* the characters of the class [><=!]
OperatorChars == {">", "<", "=", "!"}

\* condition.match(/([><=!]+)\s*(.+)/): a condition is the characters of its
\* operator text followed by a blank and a decimal literal; the match is the
\* first maximal run of class characters, <<>> when there is none (no match)
RECURSIVE FirstRun(_)
FirstRun(chars) ==
  IF chars = <<>> THEN <<>>
  ELSE IF chars[1] \in OperatorChars THEN
    LET stop == {i \in 1..Len(chars) : chars[i] \notin OperatorChars}
        end == IF stop = {} THEN Len(chars)
               ELSE (CHOOSE i \in stop : \A j \in stop : i <= j) - 1
    IN  SubSeq(chars, 1, end)
  ELSE FirstRun(Tail(chars))

\* parseFloat(valueStr) || valueStr.trim(): the number, or the string when
\* the number is 0 (falsy)
Threshold(literal) ==
  IF literal # 0 THEN [type |-> "number", value |-> literal]
  ELSE [type |-> "string", value |-> literal]

\* the block attribute a rule reads, "none" for the switch's default
BlockValueKinds == {"depth", "rock_hardness", "grade", "abrasivity"}
BlockValue(attribute, block) ==
  IF attribute = "depth" THEN block.depth
  ELSE IF attribute = "rock_hardness" THEN block.hardness
  ELSE IF attribute = "grade" THEN block.grade
  ELSE block.abrasivity

evaluateCondition(attribute, condition, block) ==
  LET operator == FirstRun(condition.operator)
      threshold == Threshold(condition.literal)
      blockValue == BlockValue(attribute, block)
  IN  IF operator = <<>> THEN FALSE
      ELSE IF attribute \notin BlockValueKinds THEN FALSE
      \* relational operators convert a string operand to a number
      ELSE IF operator = <<">">> THEN blockValue > threshold.value
      ELSE IF operator = <<">", "=">> THEN blockValue >= threshold.value
      ELSE IF operator = <<"<">> THEN blockValue < threshold.value
      ELSE IF operator = <<"<", "=">> THEN blockValue <= threshold.value
      \* === and !== compare without conversion: a number is never === a string
      ELSE IF operator \in {<<"=">>, <<"=", "=">>} THEN
        threshold.type = "number" /\ blockValue = threshold.value
      ELSE IF operator = <<"!", "=">> THEN
        ~(threshold.type = "number" /\ blockValue = threshold.value)
      ELSE FALSE

RECURSIVE AppliedPremiumsOf(_, _)
AppliedPremiumsOf(premiums, block) ==
  IF premiums = <<>> THEN <<>>
  ELSE LET n == Len(premiums)
           premium == premiums[n]
           before == AppliedPremiumsOf(SubSeq(premiums, 1, n - 1), block)
       IN  IF evaluateCondition(premium.attribute, premium.condition, block)
           THEN Append(before, [risk |-> premium.attribute, amount |-> premium.premiumPercent])
           ELSE before

calculateRiskPremium(cfg, block) ==
  LET appliedPremiums == AppliedPremiumsOf(cfg.riskPremiums.premiums, block)
  IN  [premium |-> NSum([i \in 1..Len(appliedPremiums) |-> appliedPremiums[i].amount]),
       appliedPremiums |-> appliedPremiums]

getVolumeDiscount(cfg, category, quantity) ==
  LET tiers == cfg.volumeDiscounts.tiers
      hits == {i \in 1..Len(tiers) :
                 /\ tiers[i].category = category
                 /\ NGe(quantity, tiers[i].minQuantity)
                 /\ NLe(quantity, tiers[i].maxQuantity)}
  IN  IF hits = {} THEN Num(0)
      ELSE OrElse(tiers[CHOOSE i \in hits : \A j \in hits : i <= j].discountPercent, Num(0))

-----------------------------------------------------------------------------
(* BlockCostCalculator                                                     *)

\* String.prototype.toLowerCase on the rock-type names in use
ToLowerCase(str) ==
  IF str \in {"Soft", "SOFT"} THEN "soft"
  ELSE IF str \in {"Medium", "MEDIUM"} THEN "medium"
  ELSE IF str \in {"Hard", "HARD"} THEN "hard"
  ELSE str

\* the value of an array element that does not exist
Undefined == [undefined |-> TRUE]

\* penetrationRate.find(same rock type, ignoring case) || penetrationRate[1]
FindPenRate(cfg, block) ==
  LET list == cfg.projectParameters.penetrationRate
      hits == {i \in 1..Len(list) :
                 ToLowerCase(list[i].rockType) = ToLowerCase(block.rockType)}
  IN  IF hits # {} THEN list[CHOOSE i \in hits : \A j \in hits : i <= j]
      ELSE IF Len(list) >= 2 THEN list[2]
      ELSE Undefined

\* the product planned * mechanical * operational
Oee(cfg) ==
  LET availability == cfg.projectParameters.availability
  IN  NMul(NMul(availability.planned, availability.mechanical), availability.operational)

estimateMiningHours(cfg, block) ==
  LET penRate == FindPenRate(cfg, block)
      metersToMine == NMul(Num(block.strikeLength), Num(block.width))
      baseHours == NDiv(metersToMine, penRate.metersPerHour)
  IN  NDiv(baseHours, Oee(cfg))

\* rate.roleCode.includes('direct'), on the role codes in use
IncludesDirect(roleCode) == roleCode \in {"direct_operator", "indirect_support"}

calculateLaborCost(cfg, labRates, block) ==
  LET penRate == FindPenRate(cfg, block)
      metersToMine == NMul(Num(block.strikeLength), Num(block.width))
      miningHours == NDiv(metersToMine, penRate.metersPerHour)
      effectiveHours == NDiv(miningHours, Oee(cfg))
      weight(rate) == IF IncludesDirect(rate.roleCode) THEN Num(1) ELSE Rat(3, 10)
  IN  NSum([i \in 1..Len(labRates) |->
              NMul(NMul(labRates[i].effectiveHourlyRate, effectiveHours), weight(labRates[i]))])

calculateEquipmentCost(cfg, eqRates, block) ==
  LET miningHours == estimateMiningHours(cfg, block)
  IN  NSum([i \in 1..Len(eqRates) |-> NMul(eqRates[i].costPerHour, miningHours)])

baseRatePerTonne == Rat(250, 100)

calculateConsumablesCost(block) ==
  LET depthMultiplier ==
        IF block.depth > 1000 THEN Rat(15, 10)
        ELSE IF block.depth > 500 THEN Rat(125, 100) ELSE Num(1)
      hardnessMultiplier ==
        IF block.hardness > 8 THEN Rat(16, 10)
        ELSE IF block.hardness > 6 THEN Rat(13, 10) ELSE Num(1)
  IN  NMul(NMul(NMul(baseRatePerTonne, Num(block.tonnage)), depthMultiplier),
           hardnessMultiplier)

electricityRate == Rat(12, 100)

\* reads the equipment catalog of the configuration object, not the cached rates
calculateEnergyCost(cfg, block) ==
  LET miningHours == estimateMiningHours(cfg, block)
      items == cfg.equipmentCatalog.items
      totalPowerKW == NSum([i \in 1..Len(items) |-> OrElse(items[i].specs.powerKW, Num(0))])
      kWhConsumed == NMul(totalPowerKW, miningHours)
  IN  NMul(kWhConsumed, electricityRate)

calculateMaintenanceCost(cfg, eqRates, block) ==
  LET miningHours == estimateMiningHours(cfg, block)
  IN  NSum([i \in 1..Len(eqRates) |-> NMul(eqRates[i].maintenancePerHour, miningHours)])

overheadRate == Rat(15, 100)

\* overhead taken on the labor cost alone
calculateOverheadOnLabor(cfg, eqRates, labRates, block) ==
  NMul(calculateLaborCost(cfg, labRates, block), overheadRate)

calculateOverhead(cfg, eqRates, labRates, block) ==
  LET directCosts == NAdd(calculateLaborCost(cfg, labRates, block),
                          calculateEquipmentCost(cfg, eqRates, block))
  IN  NMul(directCosts, overheadRate)

\* reads the equipment catalog of the configuration object, not the cached rates
calculateCAPEXAllocation(cfg, block) ==
  LET items == cfg.equipmentCatalog.items
      totalEquipmentCapital == NSum([i \in 1..Len(items) |-> items[i].baseCost])
      totalProductionEstimate == NMul(Num(block.tonnage), Num(1000))
      depreciationPerTonne == NDiv(totalEquipmentCapital, totalProductionEstimate)
      equipmentDepreciation == NMul(depreciationPerTonne, Num(block.tonnage))
      infrastructureAllocation == NMul(Num(block.tonnage), Num(1))
  IN  [equipmentDepreciation |-> equipmentDepreciation,
       infrastructureAllocation |-> infrastructureAllocation,
       total |-> NAdd(equipmentDepreciation, infrastructureAllocation)]

\* the margins pushed to appliedMargins: labor, then equipment, each when truthy
AppliedMarginsOf(cfg, date) ==
  LET laborMargin == getMargin(cfg, "labor", date)
      equipmentMargin == getMargin(cfg, "equipment", date)
  IN  (IF Truthy(laborMargin) THEN <<[rule |-> "labor", amount |-> laborMargin]>> ELSE <<>>)
      \o (IF Truthy(equipmentMargin)
            THEN <<[rule |-> "equipment", amount |-> equipmentMargin]>> ELSE <<>>)

\* margins compounded: each margin taken on the subtotal plus the margins before it
RECURSIVE MarginAdjustmentCompounded(_, _)
MarginAdjustmentCompounded(appliedMargins, subtotal) ==
  IF appliedMargins = <<>> THEN Num(0)
  ELSE LET n == Len(appliedMargins)
           before == MarginAdjustmentCompounded(SubSeq(appliedMargins, 1, n - 1), subtotal)
       IN  NAdd(before, NMul(NDiv(appliedMargins[n].amount, Num(100)), NAdd(subtotal, before)))

\* appliedMargins.reduce((sum, m) => sum + (m.amount / 100) * subtotal, 0)
MarginAdjustmentOf(appliedMargins, subtotal) ==
  NSum([i \in 1..Len(appliedMargins) |->
          NMul(NDiv(appliedMargins[i].amount, Num(100)), subtotal)])

\* appliedDiscounts.reduce((sum, d) => sum - (d.amount / 100) * subtotal, 0)
DiscountAdjustmentOf(appliedDiscounts, subtotal) ==
  NNeg(NSum([i \in 1..Len(appliedDiscounts) |->
               NMul(NDiv(appliedDiscounts[i].amount, Num(100)), subtotal)]))

GrandTotalOf(subtotal, riskAdjustment, marginAdjustment, discountAdjustment, contingency) ==
  NAdd(NAdd(NAdd(NAdd(subtotal, riskAdjustment), marginAdjustment), discountAdjustment),
       contingency)

BreakdownOf(category, cost, grandTotal) ==
  [category |-> category, cost |-> cost,
   percentOfTotal |-> NMul(NDiv(cost, grandTotal), Num(100))]

\* the discounts of the tiers that the block's tonnage falls in, by category
DiscountsInForce(cfg, block) ==
  LET categories == <<"equipment", "consumables", "labor">>
      applied(category) ==
        LET percent == getVolumeDiscount(cfg, category, Num(block.tonnage))
        IN  IF Truthy(percent) THEN <<[tier |-> category, amount |-> percent]>> ELSE <<>>
  IN  applied(categories[1]) \o applied(categories[2]) \o applied(categories[3])

\* the cost parts with the volume discounts looked up and applied
CostPartsWithDiscounts(cfg, eqRates, labRates, block, date) ==
  [laborCost |-> calculateLaborCost(cfg, labRates, block),
   consumablesCost |-> calculateConsumablesCost(block),
   energyCost |-> calculateEnergyCost(cfg, block),
   maintenanceCost |-> calculateMaintenanceCost(cfg, eqRates, block),
   overheadCost |-> calculateOverhead(cfg, eqRates, labRates, block),
   capexAllocation |-> calculateCAPEXAllocation(cfg, block),
   risk |-> calculateRiskPremium(cfg, block),
   appliedMargins |-> AppliedMarginsOf(cfg, date),
   appliedDiscounts |-> DiscountsInForce(cfg, block)]

\* the cost components, the CAPEX allocation and the policies that apply
CostPartsOf(cfg, eqRates, labRates, block, date) ==
  [laborCost |-> calculateLaborCost(cfg, labRates, block),
   consumablesCost |-> calculateConsumablesCost(block),
   energyCost |-> calculateEnergyCost(cfg, block),
   maintenanceCost |-> calculateMaintenanceCost(cfg, eqRates, block),
   overheadCost |-> calculateOverhead(cfg, eqRates, labRates, block),
   capexAllocation |-> calculateCAPEXAllocation(cfg, block),
   risk |-> calculateRiskPremium(cfg, block),
   appliedMargins |-> AppliedMarginsOf(cfg, date),
   appliedDiscounts |-> <<>>]

\* opexTotal = laborCost + consumablesCost + energyCost + maintenanceCost + overheadCost
OpexTotalOf(parts) ==
  NAdd(NAdd(NAdd(NAdd(parts.laborCost, parts.consumablesCost), parts.energyCost),
            parts.maintenanceCost), parts.overheadCost)

\* capexTotal = equipmentDepreciation + infrastructureAllocation
CapexTotalOf(parts) ==
  NAdd(parts.capexAllocation.equipmentDepreciation,
       parts.capexAllocation.infrastructureAllocation)

\* the unit costs, the breakdown and the record returned
BlockCostResultOf(cfg, block, date, parts, opexTotal, subtotal, contingency, grandTotal) ==
  [status |-> "returned",
   blockId |-> block.blockId,
   calculatedAt |-> date,
   configVersion |-> cfg.version,
   costPerTonne |-> NDiv(grandTotal, Num(block.tonnage)),
   costPerMeter |-> NDiv(grandTotal, OrElse(Num(block.strikeLength), Num(1))),
   breakdown |->
     << BreakdownOf("Labor", parts.laborCost, grandTotal),
        BreakdownOf("Consumables", parts.consumablesCost, grandTotal),
        BreakdownOf("Energy", parts.energyCost, grandTotal),
        BreakdownOf("Maintenance", parts.maintenanceCost, grandTotal),
        BreakdownOf("Overhead", parts.overheadCost, grandTotal),
        BreakdownOf("Equipment CAPEX", parts.capexAllocation.equipmentDepreciation,
                    grandTotal),
        BreakdownOf("Infrastructure", parts.capexAllocation.infrastructureAllocation,
                    grandTotal) >>,
   capexComponent |-> parts.capexAllocation,
   opexComponent |->
     [labor |-> parts.laborCost, consumables |-> parts.consumablesCost,
      energy |-> parts.energyCost, maintenance |-> parts.maintenanceCost,
      overhead |-> parts.overheadCost, total |-> opexTotal],
   appliedMargins |-> parts.appliedMargins,
   appliedPremiums |-> parts.risk.appliedPremiums,
   appliedDiscounts |-> parts.appliedDiscounts,
   subtotal |-> subtotal,
   contingency |-> contingency,
   grandTotal |-> grandTotal]

\* the adjustments, each taken on the subtotal, and the grand total
AdjustedOf(cfg, block, date, parts, opexTotal, subtotal) ==
  LET riskAdjustment == NMul(subtotal, NDiv(parts.risk.premium, Num(100)))
      marginAdjustment == MarginAdjustmentOf(parts.appliedMargins, subtotal)
      discountAdjustment == DiscountAdjustmentOf(parts.appliedDiscounts, subtotal)
      contingencyRate == NDiv(cfg.calculatorSettings.contingencyPercent, Num(100))
      contingency == NMul(subtotal, contingencyRate)
  IN  BlockCostResultOf(cfg, block, date, parts, opexTotal, subtotal, contingency,
                        GrandTotalOf(subtotal, riskAdjustment, marginAdjustment,
                                     discountAdjustment, contingency))

\* subtotal = opexTotal + capexTotal
SubtotalledOf(cfg, block, date, parts) ==
  AdjustedOf(cfg, block, date, parts, OpexTotalOf(parts),
             NAdd(OpexTotalOf(parts), CapexTotalOf(parts)))

\* calculateBlockCost(block) at wall-clock date `date`, on an engine holding the
\* configuration object cfg and the cached tables eqRates, labRates; the outcome
\* is the result returned, or the TypeError thrown on reading a property of an
\* undefined penetration rate
calculateBlockCost(cfg, eqRates, labRates, block, date) ==
  IF FindPenRate(cfg, block) = Undefined THEN [status |-> "threw", error |-> "TypeError"]
  ELSE SubtotalledOf(cfg, block, date, CostPartsOf(cfg, eqRates, labRates, block, date))

-----------------------------------------------------------------------------
(* ProjectAggregator                                                       *)

\* the period token `${year}-${month, two digits}` as the number yyyymm
PeriodToken(year, month) == year * 100 + month

\* the horizon with the end year left out: year < endYear
HorizonOfExclusive(cfg) ==
  LET startYear == cfg.projectParameters.lifeOfMine.startYear
      years == cfg.projectParameters.lifeOfMine.years
  IN  [i \in 1..(12 * years) |->
         [year |-> startYear + ((i - 1) \div 12), month |-> ((i - 1) % 12) + 1]]

\* the periods of the horizon in loop order: year startYear..endYear, month 1..12
HorizonOf(cfg) ==
  LET startYear == cfg.projectParameters.lifeOfMine.startYear
      years == cfg.projectParameters.lifeOfMine.years
  IN  [i \in 1..(12 * (years + 1)) |->
         [year |-> startYear + ((i - 1) \div 12), month |-> ((i - 1) % 12) + 1]]

\* blockCosts.get(id): the cost of the last block of `blocks` carrying the id
\* (Map.set overwrites), Undefined when no block carries it
BlockCostsGet(costs, blocks, id) ==
  LET hits == {i \in 1..Len(blocks) : blocks[i].blockId = id}
  IN  IF hits = {} THEN Undefined ELSE costs[CHOOSE i \in hits : \A j \in hits : j <= i]

\* the entries of one period cut down to the first of them
CountedOnce(blocks, schedule, period) ==
  LET entries == SelectSeq(schedule, LAMBDA sch :
                   sch.period = period /\ \E i \in 1..Len(blocks) : blocks[i].blockId = sch.blockId)
  IN  IF entries = <<>> THEN entries ELSE <<Head(entries)>>

\* the schedule entries of one period that name a supplied block, in order
CountedEntries(blocks, schedule, period) ==
  SelectSeq(schedule, LAMBDA sch :
    sch.period = period /\ \E i \in 1..Len(blocks) : blocks[i].blockId = sch.blockId)

\* the running sum lost: each period's cumulative is its own net cash flow
AccumulateNothing(cashflows) ==
  [i \in 1..Len(cashflows) |->
     [cashflows[i] EXCEPT !.cumulativeCashflow = cashflows[i].netCashflow]]

\* cumulative += cf.netCashflow; cf.cumulativeCashflow = cumulative: the sum
\* 0 + net[0] + ... + net[i], added up from the left
Accumulate(cashflows) ==
  [i \in 1..Len(cashflows) |->
     [cashflows[i] EXCEPT
        !.cumulativeCashflow = NSumTo([t \in 1..i |-> cashflows[t].netCashflow], i)]]

CashflowOf(period, year, month, periodCapex, periodOpex) ==
  [period |-> period, year |-> year, month |-> month,
   capex |-> [equipment |-> NMul(periodCapex, Rat(7, 10)),
              infrastructure |-> NMul(periodCapex, Rat(2, 10)),
              development |-> NMul(periodCapex, Rat(1, 10)),
              workingCapital |-> Num(0),
              total |-> periodCapex],
   opex |-> [mining |-> NMul(periodOpex, Rat(4, 10)),
             processing |-> NMul(periodOpex, Rat(2, 10)),
             maintenance |-> NMul(periodOpex, Rat(15, 100)),
             labor |-> NMul(periodOpex, Rat(15, 100)),
             energy |-> NMul(periodOpex, Rat(5, 100)),
             gAndA |-> NMul(periodOpex, Rat(5, 100)),
             other |-> Num(0),
             total |-> periodOpex],
   netCashflow |-> NNeg(NAdd(periodCapex, periodOpex)),
   cumulativeCashflow |-> Num(0)]

\* the periods filled from each block's grandTotal: adjustments and contingency
\* carried into the cash flow
CashflowsFromGrandTotals(cfg, blocks, schedule, costs) ==
  LET horizon == HorizonOf(cfg)
      row(h) ==
        LET period == PeriodToken(h.year, h.month)
            counted == CountedEntries(blocks, schedule, period)
            cost(j) == BlockCostsGet(costs, blocks, counted[j].blockId)
            periodCapex == NSum([j \in 1..Len(counted) |-> cost(j).capexComponent.total])
            periodOpex == NSum([j \in 1..Len(counted) |->
                                  NSub(cost(j).grandTotal, cost(j).capexComponent.total)])
        IN  CashflowOf(period, h.year, h.month, periodCapex, periodOpex)
  IN  IF \E i \in 1..Len(blocks) : costs[i].status = "threw"
      THEN [status |-> "threw", error |-> "TypeError"]
      ELSE [status |-> "returned",
            cashflows |-> Stored(Accumulate(Stored([i \in 1..Len(horizon) |-> row(horizon[i])])))]

\* the periods of the horizon filled from the block costs, then accumulated
CashflowsFrom(cfg, blocks, schedule, costs) ==
  LET horizon == HorizonOf(cfg)
      row(h) ==
        LET period == PeriodToken(h.year, h.month)
            counted == CountedEntries(blocks, schedule, period)
            cost(j) == BlockCostsGet(costs, blocks, counted[j].blockId)
            periodCapex == NSum([j \in 1..Len(counted) |-> cost(j).capexComponent.total])
            periodOpex == NSum([j \in 1..Len(counted) |-> cost(j).opexComponent.total])
        IN  CashflowOf(period, h.year, h.month, periodCapex, periodOpex)
  IN  IF \E i \in 1..Len(blocks) : costs[i].status = "threw"
      THEN [status |-> "threw", error |-> "TypeError"]
      ELSE [status |-> "returned",
            cashflows |-> Stored(Accumulate(Stored([i \in 1..Len(horizon) |-> row(horizon[i])])))]

\* generateCashflow(blocks, schedule): the series, or the TypeError of a block's
\* cost calculation
generateCashflow(cfg, eqRates, labRates, blocks, schedule, date) ==
  CashflowsFrom(cfg, blocks, schedule,
                Stored([i \in 1..Len(blocks) |->
                          calculateBlockCost(cfg, eqRates, labRates, blocks[i], date)]))

RECURSIVE NPowInt(_, _)
NPowInt(a, k) == IF k = 0 THEN Num(1) ELSE NMul(NPowInt(a, k - 1), a)

\* a value the model's numbers cannot hold: evaluating it is an error
Unrepresentable == CHOOSE x \in {} : TRUE

\* the decimals to which an irrational power is followed: thousandths
Grid == 1000

\* the largest base whose twelfth root is followed
MaxBase == 20

RECURSIVE IRoot(_, _, _, _)
\* the greatest x in lo..hi with x^k <= n, for k in {2, 3} and lo^k <= n
IRoot(n, k, lo, hi) ==
  IF lo = hi THEN lo
  ELSE LET mid == (lo + hi + 1) \div 2
       IN  IF (IF k = 2 THEN mid * mid ELSE mid * mid * mid) <= n
           THEN IRoot(n, k, mid, hi) ELSE IRoot(n, k, lo, mid - 1)

\* a finite positive number cut to the grid
Coarse(a) == Rat((a.n * Grid) \div a.d, Grid)

\* Math.pow(base, 1 / 12) for a base on the grid in (0, MaxBase], as the cube
\* root of the square root of the square root, each cut to the grid
Root12(base) ==
  LET whole == (base.n * Grid) \div base.d
      half == IRoot(whole * Grid, 2, 0, 46000)
      quarter == IRoot(half * Grid, 2, 0, 46000)
  IN  Rat(IRoot(quarter * Grid * Grid, 3, 0, 1290), Grid)

RECURSIVE CoarsePow(_, _)
\* root^k, cut to the grid after every multiplication
CoarsePow(root, k) ==
  IF k = 0 THEN Num(1) ELSE Coarse(NMul(CoarsePow(root, k - 1), root))

\* Math.pow(base, t / 12) * base^j for t no multiple of 12 and a finite positive
\* base: an irrational, followed on the grid
FractionalPow(base, t, j) ==
  IF NGt(base, Num(MaxBase)) \/ Coarse(base).n = 0 THEN Unrepresentable
  ELSE NMul(NMul(CoarsePow(Root12(Coarse(base)), t % 12),
                 NPowInt(Coarse(base), t \div 12)),
            NPowInt(Coarse(base), j))

\* c / (Math.pow(base, t / 12) * base^j) for j in {0, 1}.  With t a multiple
\* of 12 the power is exact.  Otherwise the power of a positive finite base is
\* a positive finite irrational: the quotient is c itself when c is 0, infinite
\* or NaN, and is followed to the grid (about three digits) when c is not.
OverPow(c, base, t, j) ==
  LET extra == NPowInt(base, j) IN
  IF t % 12 = 0 THEN NDiv(c, NMul(NPowInt(base, t \div 12), extra))
  ELSE IF IsNaN(base) THEN NAN
  ELSE IF IsFinite(base) /\ base.n < 0 THEN NAN
  ELSE IF IsFinite(base) /\ base.n = 0 THEN NDiv(c, NMul(Num(0), extra))
  ELSE IF ~IsFinite(base) THEN NDiv(c, NMul(INF, extra))
  ELSE IF IsFinite(c) /\ c.n # 0 THEN NDiv(c, FractionalPow(base, t, j))
  ELSE c

\* the value null
Null == [null |-> TRUE]

maxIterations == 100
tolerance == Rat(1, 10000)

\* the loop's position: the current rate, whether the function has returned,
\* and the value it returned
NewtonStart(guess) == [rate |-> guess, returned |-> FALSE, value |-> Null]

\* the end of one pass: return null, return the new rate, or go on with it
NewtonOutcome(at, npv, derivNPV) ==
  LET newRate == NSub(at.rate, NDiv(npv, derivNPV))
  IN  IF NLt(NAbs(derivNPV), tolerance) THEN [at EXCEPT !.returned = TRUE]
      ELSE IF NLt(NAbs(NSub(newRate, at.rate)), tolerance)
        THEN [at EXCEPT !.returned = TRUE, !.value = newRate]
      ELSE [at EXCEPT !.rate = newRate]

\* npv at a rate: the sum of cashflows[t] / Math.pow(1 + rate, t / 12)
NpvAt(cashflows, rate) ==
  NSum([t \in 1..Len(cashflows) |->
          OverPow(cashflows[t], NAdd(Num(1), rate), t - 1, 0)])

\* derivNPV at a rate: minus the sum of (t / 12) * cashflows[t] / (factor * (1 + rate))
DerivAt(cashflows, rate) ==
  NNeg(NSum([t \in 1..Len(cashflows) |->
               OverPow(NMul(Rat(t - 1, 12), cashflows[t]), NAdd(Num(1), rate), t - 1, 1)]))

\* one pass of the for loop: npv and derivNPV at the current rate
NewtonPass(cashflows, at) ==
  IF at.returned THEN at
  ELSE NewtonOutcome(at, NpvAt(cashflows, at.rate), DerivAt(cashflows, at.rate))

\* the loop condition i < maxIterations kept open for half as many passes again
WithinIterationsLonger(i) == i < maxIterations + (maxIterations \div 2)

\* the loop condition i < maxIterations
WithinIterations(i) == i < maxIterations

\* n passes in a row: the first half, and from where it ends the rest
RECURSIVE NewtonPasses(_, _, _)
NewtonPasses(cashflows, at, n) ==
  IF n = 0 THEN at
  ELSE IF n = 1 THEN NewtonPass(cashflows, at)
  ELSE CHOOSE end \in {NewtonPasses(cashflows, mid, n - (n \div 2)) :
                         mid \in {NewtonPasses(cashflows, at, n \div 2)}} : TRUE

\* calculateIRR(cashflows), guess = 0.1: the value returned in the loop, or the
\* null after maxIterations passes
calculateIRR(cashflows) ==
  NewtonPasses(cashflows, NewtonStart(Rat(1, 10)), maxIterations).value

totalTonnage == 1000000
totalMeters == 5000

\* the payback counted from 1 instead of the findIndex position
PaybackOneBased(cashflows) ==
  LET reached == {i \in 1..Len(cashflows) :
                    NGe(cashflows[i].cumulativeCashflow, Num(0))}
  IN  IF reached = {} THEN Len(cashflows)
      ELSE CHOOSE i \in reached : \A j \in reached : i <= j

\* paybackIndex = findIndex(cumulativeCashflow >= 0), positions counted from 0;
\* paybackMonths = paybackIndex >= 0 ? paybackIndex : cashflows.length
PaybackOf(cashflows) ==
  LET reached == {i \in 1..Len(cashflows) :
                    NGe(cashflows[i].cumulativeCashflow, Num(0))}
  IN  IF reached = {} THEN Len(cashflows)
      ELSE (CHOOSE i \in reached : \A j \in reached : i <= j) - 1

\* irr || 0
IrrOrZero(irr) == IF irr = Null THEN Num(0) ELSE OrElse(irr, Num(0))

generateSummary(cfg, cashflows) ==
  LET n == Len(cashflows)
      lifeOfMine == cfg.projectParameters.lifeOfMine
      totalCAPEX == NSum([i \in 1..n |-> cashflows[i].capex.total])
      totalOPEX == NSum([i \in 1..n |-> cashflows[i].opex.total])
      totalCashflow == IF n = 0 THEN Num(0)
                       ELSE OrElse(cashflows[n].cumulativeCashflow, Num(0))
      discountRate == cfg.aggregatorSettings.discountRate
      npv == NSum([i \in 1..n |->
                     OverPow(cashflows[i].netCashflow, NAdd(Num(1), discountRate), i - 1, 0)])
      irr == calculateIRR(Stored([i \in 1..n |-> cashflows[i].netCashflow]))
  IN  [projectStart |-> PeriodToken(lifeOfMine.startYear, 1),
       projectEnd |-> PeriodToken(lifeOfMine.startYear + lifeOfMine.years, 12),
       totalMonths |-> n,
       totalCAPEX |-> totalCAPEX,
       totalOPEX |-> totalOPEX,
       totalCashflow |-> totalCashflow,
       npv |-> npv,
       irr |-> IrrOrZero(irr),
       paybackMonths |-> PaybackOf(cashflows),
       costPerTonne |-> NDiv(NAdd(totalCAPEX, totalOPEX), Num(totalTonnage)),
       costPerMeter |-> NDiv(NAdd(totalCAPEX, totalOPEX), Num(totalMeters)),
       opexIntensity |-> Num(0),
       fixedCosts |-> totalCAPEX,
       variableCosts |-> totalOPEX,
       fixedCostRatio |-> NDiv(totalCAPEX, NAdd(totalCAPEX, totalOPEX))]

-----------------------------------------------------------------------------
(* CostModelEngine                                                         *)

\* the fields recalculateRates writes after the spread
DerivedTables == {"equipmentRates", "laborRates", "fuelRates"}

\* the spread written last: { equipmentRates, laborRates, fuelRates, ...this.config },
\* so that a table the configuration carries is the one returned
recalculateRatesSpreadLast(cfg) ==
  [f \in (DOMAIN cfg) \cup DerivedTables |->
     IF f \in DOMAIN cfg THEN cfg[f]
     ELSE IF f = "equipmentRates" THEN calculateEquipmentRates(cfg)
     ELSE IF f = "laborRates" THEN calculateLaborRates(cfg)
     ELSE calculateFuelRates]

\* recalculateRates(): { ...this.config, equipmentRates, laborRates, fuelRates },
\* a new object; cfg is the configuration object as it is at the call
recalculateRates(cfg) ==
  [f \in (DOMAIN cfg) \cup DerivedTables |->
     IF f = "equipmentRates" THEN calculateEquipmentRates(cfg)
     ELSE IF f = "laborRates" THEN calculateLaborRates(cfg)
     ELSE IF f = "fuelRates" THEN calculateFuelRates
     ELSE cfg[f]]

\* the value returned from the block costs and the cash-flow outcome
ProjectionOf(cfg, blockCosts, flow) ==
  IF flow.status = "threw" THEN flow
  ELSE [status |-> "returned",
        blockCosts |-> blockCosts,
        cashflows |-> flow.cashflows,
        summary |-> generateSummary(cfg, flow.cashflows)]

\* runFullProjection(blocks, schedule): calculateBlocks, generateCashflow,
\* generateSummary; a TypeError of a block's calculation ends the call
runFullProjection(cfg, eqRates, labRates, blocks, schedule, date) ==
  ProjectionOf(cfg,
               [i \in 1..Len(blocks) |->
                  calculateBlockCost(cfg, eqRates, labRates, blocks[i], date)],
               generateCashflow(cfg, eqRates, labRates, blocks, schedule, date))

\* the multiplier without its "1 +": variation / 100
MultiplierBare(variation) == NDiv(variation, Num(100))

\* multiplier = 1 + variation / 100
Multiplier(variation) == NAdd(Num(1), NDiv(variation, Num(100)))

\* items.map(item => ({ ...item, baseCost: item.baseCost * multiplier }))
ScaledItems(items, multiplier) ==
  [i \in 1..Len(items) |-> [items[i] EXCEPT !.baseCost = NMul(@, multiplier)]]

\* roles.map(role => ({ ...role, annualRate: role.annualRate * multiplier }))
ScaledRoles(roles, multiplier) ==
  [i \in 1..Len(roles) |-> [roles[i] EXCEPT !.annualRate = NMul(@, multiplier)]]

\* applyVariation with every other name falling into the discount-rate case
applyVariationDefaultDiscount(cfg, variable, variation) ==
  IF variable = "discount_rate" THEN
    [cfg EXCEPT !.aggregatorSettings.discountRate = NMul(@, Multiplier(variation))]
  ELSE IF variable = "equipment_cost" THEN
    [cfg EXCEPT !.equipmentCatalog.items = ScaledItems(@, Multiplier(variation))]
  ELSE IF variable = "labor_cost" THEN
    [cfg EXCEPT !.laborCatalog.roles = ScaledRoles(@, Multiplier(variation))]
  ELSE [cfg EXCEPT !.aggregatorSettings.discountRate = NMul(@, Multiplier(variation))]

\* applyVariation with the equipment case dividing by the multiplier
applyVariationDividing(cfg, variable, variation) ==
  IF variable = "discount_rate" THEN
    [cfg EXCEPT !.aggregatorSettings.discountRate = NMul(@, Multiplier(variation))]
  ELSE IF variable = "equipment_cost" THEN
    [cfg EXCEPT !.equipmentCatalog.items =
                  ScaledItems(@, NDiv(Num(1), Multiplier(variation)))]
  ELSE IF variable = "labor_cost" THEN
    [cfg EXCEPT !.laborCatalog.roles = ScaledRoles(@, Multiplier(variation))]
  ELSE cfg

\* applyVariation(variable, variation): a new configuration with one family
\* scaled, and in the default case the configuration object itself
applyVariation(cfg, variable, variation) ==
  IF variable = "discount_rate" THEN
    [cfg EXCEPT !.aggregatorSettings.discountRate = NMul(@, Multiplier(variation))]
  ELSE IF variable = "equipment_cost" THEN
    [cfg EXCEPT !.equipmentCatalog.items = ScaledItems(@, Multiplier(variation))]
  ELSE IF variable = "labor_cost" THEN
    [cfg EXCEPT !.laborCatalog.roles = ScaledRoles(@, Multiplier(variation))]
  ELSE cfg

\* new CostModelEngine(cfg).runFullProjection(blocks, schedule): the rate
\* tables are computed from cfg in the constructor
ProjectionOver(cfg, blocks, schedule, date) ==
  CHOOSE projection \in
    {runFullProjection(held, eqRates, labRates, blocks, schedule, date) :
       held \in {cfg}, eqRates \in {calculateEquipmentRates(cfg)},
       labRates \in {calculateLaborRates(cfg)}} : TRUE

\* results.push({ variation, npv: projection.summary.npv, irr: projection.summary.irr })
SensitivityRecord(variation, projection) ==
  IF projection.status = "threw" THEN projection
  ELSE [variation |-> variation, npv |-> projection.summary.npv,
        irr |-> projection.summary.irr]

\* the configuration of the i-th pass when every pass scales the configuration
\* the pass before it left behind
RECURSIVE VariedInPlace(_, _, _, _)
VariedInPlace(cfg, variable, variations, i) ==
  IF i = 0 THEN cfg
  ELSE applyVariation(VariedInPlace(cfg, variable, variations, i - 1), variable,
                      variations[i])

\* the records of a loop whose passes share one configuration object
SensitivityRecordsInPlace(cfg, blocks, schedule, variable, variations, date) ==
  Stored([i \in 1..Len(variations) |->
            SensitivityRecord(variations[i],
                              ProjectionOver(VariedInPlace(cfg, variable, variations, i),
                                             blocks, schedule, date))])

\* the records of the for loop, one pass per variation, in order
SensitivityRecords(cfg, blocks, schedule, variable, variations, date) ==
  Stored([i \in 1..Len(variations) |->
            SensitivityRecord(variations[i],
                              ProjectionOver(applyVariation(cfg, variable, variations[i]),
                                             blocks, schedule, date))])

\* the value returned, or the TypeError of the first pass that threw
SensitivityOutcome(records) ==
  IF \E i \in 1..Len(records) : "status" \in DOMAIN records[i]
  THEN [status |-> "threw", error |-> "TypeError"]
  ELSE [status |-> "returned", results |-> records]

\* runSensitivity(blocks, schedule, variable, variations)
runSensitivity(cfg, blocks, schedule, variable, variations, date) ==
  SensitivityOutcome(SensitivityRecords(cfg, blocks, schedule, variable, variations, date))

-----------------------------------------------------------------------------
(* Configurations and blocks                                               *)

\* sequences over S of length at most n
SeqsUpTo(S, n) == UNION {[1..k -> S] : k \in 0..n}

Today == 20250601

\* the penetration rates of createDefaultConfig, the medium entry as given
PenetrationRates(medium) ==
  << [metersPerHour |-> Rat(5, 2), rockType |-> "soft"],
     [metersPerHour |-> medium, rockType |-> "medium"],
     [metersPerHour |-> Rat(4, 5), rockType |-> "hard"] >>

Drill ==
  [itemCode |-> "drill", baseCost |-> Num(60000), currency |-> "USD",
   salvageValue |-> Num(10), usefulLife |-> [years |-> Num(10)],
   specs |-> [powerKW |-> Num(50)]]

Operator ==
  [roleCode |-> "direct_operator", annualRate |-> Num(20800), currency |-> "USD",
   burdenRate |-> Rat(3, 2), utilizationFactor |-> Rat(1, 2)]

Supervisor ==
  [roleCode |-> "supervisor", annualRate |-> Num(41600), currency |-> "USD",
   burdenRate |-> Rat(3, 2), utilizationFactor |-> Num(1)]

\* createDefaultConfig() with the fields the engine reads, the edited ones as given
MakeConfig(medium, planned, items, roles, premiums, rules, contingencyPercent, years) ==
  [version |-> "3.0.0",
   fxRates |-> [rates |-> [c \in {"CAD", "EUR", "AUD", "GBP"} |->
                  IF c = "CAD" THEN Rat(136, 100)
                  ELSE IF c = "EUR" THEN Rat(92, 100)
                  ELSE IF c = "AUD" THEN Rat(153, 100) ELSE Rat(79, 100)]],
   projectParameters |->
     [lifeOfMine |-> [years |-> years, startYear |-> 2025],
      penetrationRate |-> PenetrationRates(medium),
      availability |-> [planned |-> planned, mechanical |-> Num(1), operational |-> Num(1)]],
   equipmentCatalog |-> [items |-> items],
   laborCatalog |-> [roles |-> roles],
   marginRules |-> [rules |-> rules],
   riskPremiums |-> [premiums |-> premiums],
   volumeDiscounts |-> [tiers |-> <<>>],
   calculatorSettings |-> [contingencyPercent |-> contingencyPercent, projectCurrency |-> "USD"],
   aggregatorSettings |-> [discountRate |-> Rat(8, 100)]]

Condition(operator, literal) == [operator |-> operator, literal |-> literal]
Premium(attribute, operator, literal, percent) ==
  [attribute |-> attribute, condition |-> Condition(operator, literal),
   premiumPercent |-> Num(percent)]
MarginRule(category, percent, from, to) ==
  [costCategory |-> category, marginPercent |-> Num(percent), validFrom |-> from,
   validTo |-> to]

\* a block; grade and abrasivity are fixed where no rule reads them
Block(id, tonnage, strikeLength, width, rockType, depth, hardness) ==
  [blockId |-> id, depth |-> depth, tonnage |-> tonnage, grade |-> 2,
   rockType |-> rockType, hardness |-> hardness, abrasivity |-> 3,
   strikeLength |-> strikeLength, width |-> width]

MaxTonnage == 2

\* blocks for the unit-cost calculator: tonnage negative, zero and positive,
\* degenerate and regular geometry, a matching and an unknown rock type
CalcBlocks ==
  {Block("B1", t, g[1], g[2], rock, depth, 7) :
     t \in (-1)..MaxTonnage, g \in {<<0, 0>>, <<3, 2>>},
     rock \in {"Medium", "granite"}, depth \in {100, 600}}

CalcConfigs ==
  {MakeConfig(medium, planned, cat[1], cat[2], premiums, rules, Num(contingency), 0) :
     medium \in {Num(0), Rat(3, 2)},
     planned \in {Num(0), Rat(4, 5)},
     cat \in {<< <<>>, <<>> >>, << <<Drill>>, <<Operator, Supervisor>> >>},
     premiums \in {<<>>,
                   <<Premium("depth", <<">">>, 500, 5), Premium("rock_hardness", <<">">>, 6, 3)>>,
                   <<Premium("depth", <<">">>, 500, -200)>>},
     rules \in {<<>>,
                <<MarginRule("labor", 10, 20250101, NoDate),
                  MarginRule("equipment", 5, 20250101, 20251231)>>},
     contingency \in {0, 10}}

-----------------------------------------------------------------------------
(* The engine                                                              *)

NoCall == [op |-> "none"]
NoFirst == [b \in {"B1", "B2"} |-> NoCall]
\* no configurator is mounted
NoEditor == [mounted |-> FALSE]

\* new CostModelEngine(cfg): the engine keeps the object it is given and
\* computes its rate tables once
Constructed(cfg) ==
  /\ config = cfg
  /\ snapshot = cfg
  /\ equipmentRates = calculateEquipmentRates(cfg)
  /\ laborRates = calculateLaborRates(cfg)
  /\ call = NoCall
  /\ first = NoFirst
  /\ editor = NoEditor

\* engine.calculateBlock(block)
CalculateBlock(block) ==
  /\ call' = [op |-> "calculateBlock", block |-> block,
              result |-> calculateBlockCost(config, equipmentRates, laborRates, block, now)]
  /\ UNCHANGED <<config, snapshot, equipmentRates, laborRates, now, editor>>

\* the caller takes the returned value; the engine is ready for the next call
Return ==
  /\ call # NoCall
  /\ call' = NoCall
  /\ UNCHANGED <<config, snapshot, equipmentRates, laborRates, now, first, editor>>

InitCalc == now = Today /\ \E cfg \in CalcConfigs : Constructed(cfg)
NextCalc ==
  \/ \E block \in CalcBlocks : call = NoCall /\ CalculateBlock(block) /\ UNCHANGED first
  \/ Return
SpecCalc == InitCalc /\ [][NextCalc]_vars

-----------------------------------------------------------------------------
(* Unit-cost calculator: properties                                        *)

Returned == call.op = "calculateBlock" /\ call.result.status = "returned"

\* a number that is neither infinite nor NaN
Finite(a) == IsFinite(a)

InvalidBlock(block) ==
  block.tonnage <= 0 \/ (block.strikeLength = 0 /\ block.width = 0)

\* C1: a block with tonnage <= 0, or with strikeLength and width both zero, is
\* rejected: calculateBlock never returns a cost result for it
C1_InvalidBlockRejected ==
  (call.op = "calculateBlock" /\ InvalidBlock(call.block))
    => call.result.status # "returned"

\* sum of the amounts of a list of applied policies
AmountsOf(applied) == NSum([i \in 1..Len(applied) |-> applied[i].amount])
\* each share amount/100 of the subtotal, added up
SharesOf(applied, subtotal) ==
  NSum([i \in 1..Len(applied) |-> NMul(subtotal, NDiv(applied[i].amount, Num(100)))])

RockTypeResolves(cfg, block) ==
  \E i \in 1..Len(cfg.projectParameters.penetrationRate) :
    ToLowerCase(cfg.projectParameters.penetrationRate[i].rockType) = ToLowerCase(block.rockType)

\* C3: for a block with tonnage > 0 and a rock type that resolves, the returned
\* grandTotal is finite and strictly positive, whatever the configuration
C3_GrandTotalFinitePositive ==
  (Returned /\ call.block.tonnage > 0 /\ RockTypeResolves(config, call.block))
    => (Finite(call.result.grandTotal) /\ Sign(call.result.grandTotal) > 0)

-----------------------------------------------------------------------------
(* The caller's hold on the configuration object, and the clock            *)

LiveConfig ==
  MakeConfig(Rat(3, 2), Rat(4, 5), <<Drill>>, <<Operator>>,
             <<Premium("depth", <<">">>, 500, 5)>>, <<>>, Num(10), 0)

LiveBlocks ==
  {Block("B1", MaxTonnage, 3, 2, "Medium", 600, 7),
   Block("B2", MaxTonnage + 1, 2, 2, "hard", 100, 5)}

\* the caller assigns a field of the object it passed to the constructor
CallerEdit ==
  /\ \/ \E v \in {Num(60000), Num(120000)} :
          config' = [config EXCEPT !.equipmentCatalog.items[1].baseCost = v]
     \/ \E v \in {Num(50), Num(100)} :
          config' = [config EXCEPT !.equipmentCatalog.items[1].specs.powerKW = v]
     \/ \E v \in {Num(5), Num(8)} :
          config' = [config EXCEPT !.riskPremiums.premiums[1].premiumPercent = v]
     \/ \E v \in {Num(10), Num(20)} :
          config' = [config EXCEPT !.calculatorSettings.contingencyPercent = v]
  /\ config' # config
  /\ UNCHANGED <<snapshot, equipmentRates, laborRates, now, call, first, editor>>

\* new CostModelEngine(config) over the object as it is now
Reconstruct ==
  /\ snapshot' = config
  /\ equipmentRates' = calculateEquipmentRates(config)
  /\ laborRates' = calculateLaborRates(config)
  /\ call' = NoCall
  /\ UNCHANGED <<config, now, first, editor>>

InitLive == now = Today /\ Constructed(LiveConfig)
NextLive ==
  \/ \E block \in LiveBlocks : CalculateBlock(block) /\ UNCHANGED first
  \/ CallerEdit
  \/ Reconstruct
SpecLive == InitLive /\ [][NextLive]_vars

\* the cost figures of a result: every field but the calculatedAt timestamp
CostFigures(result) == [f \in (DOMAIN result) \ {"calculatedAt"} |-> result[f]]

\* C6: every calculateBlock result equals the result computed from the
\* configuration as it was when the engine was constructed
C6_ComputesOverSnapshot ==
  Returned =>
    CostFigures(call.result) =
      CostFigures(calculateBlockCost(snapshot, calculateEquipmentRates(snapshot),
                                     calculateLaborRates(snapshot), call.block,
                                     call.result.calculatedAt))

ClockConfig ==
  MakeConfig(Rat(3, 2), Rat(4, 5), <<Drill>>, <<Operator>>, <<>>,
             <<MarginRule("labor", 10, 20250101, Today),
               MarginRule("equipment", 5, 20250701, NoDate)>>, Num(10), 0)

\* the dates the clock passes through
ClockDates == {Today, 20250602, 20250701, 20250702}

\* time passes
Tick ==
  /\ \E d \in ClockDates : d > now /\ now' = d
  /\ UNCHANGED <<config, snapshot, equipmentRates, laborRates, call, first, editor>>

\* calculateBlock, the first outcome per block id kept as history
CalculateBlockRecorded(block) ==
  /\ CalculateBlock(block)
  /\ first' = IF first[block.blockId] = NoCall
              THEN [first EXCEPT ![block.blockId] = call']
              ELSE first

InitClock == now = Today /\ Constructed(ClockConfig)
NextClock ==
  \/ \E block \in LiveBlocks : CalculateBlockRecorded(block)
  \/ Tick
SpecClock == InitClock /\ [][NextClock]_vars

\* C7: a calculateBlock call returns the cost figures the first call with the
\* same block returned, whatever was called and however much time passed in between
C7_SameBlockSameFigures ==
  (Returned /\ first[call.block.blockId] # NoCall
            /\ first[call.block.blockId].block = call.block)
    => CostFigures(call.result) = CostFigures(first[call.block.blockId].result)

-----------------------------------------------------------------------------
(* PoliciesEngine called directly                                          *)

MaxRules == 2
MaxLiteral == 1

PolicyAttributes == BlockValueKinds \cup {"location"}
\* operator texts: the seven of the grammar, three other runs of class
\* characters, and one text the pattern does not match
GrammarOperators ==
  {<<">">>, <<">", "=">>, <<"<">>, <<"<", "=">>, <<"=">>, <<"=", "=">>, <<"!", "=">>}
PolicyOperators == GrammarOperators \cup {<<"=", ">">>, <<"<", ">">>, <<"!">>, <<"~">>}
Literals == 0..MaxLiteral

SingleRuleLists ==
  {<<Premium(a, o, l, 5)>> : a \in PolicyAttributes, o \in PolicyOperators, l \in Literals}

StackingRules ==
  {Premium("depth", <<">">>, 0, 5), Premium("rock_hardness", <<">", "=">>, 1, 3),
   Premium("depth", <<"<">>, 0, 7)}

PolicyMarginRules ==
  {MarginRule("labor", 10, 20250101, Today), MarginRule("labor", 7, Today, NoDate),
   MarginRule("equipment", 5, 20250101, NoDate)}

PolicyConfigs ==
  {MakeConfig(Rat(3, 2), Rat(4, 5), <<>>, <<>>, premiums, <<>>, Num(10), 0) :
     premiums \in SingleRuleLists \cup SeqsUpTo(StackingRules, MaxRules)}
  \cup
  {MakeConfig(Rat(3, 2), Rat(4, 5), <<>>, <<>>, <<>>, rules, Num(10), 0) :
     rules \in SeqsUpTo(PolicyMarginRules, MaxRules)}

\* blocks whose attributes lie below, on and above every literal
PolicyBlocks ==
  {[Block("B1", 2, 3, 2, "Medium", v, w) EXCEPT !.grade = w, !.abrasivity = v] :
     v \in (-1)..(MaxLiteral + 1), w \in (-1)..(MaxLiteral + 1)}

PolicyCategories == {"labor", "equipment", "energy"}
PolicyDates == {20241231, 20250101, Today, 20250602, Date2099, 21000101}

\* policies.calculateRiskPremium(block)
CalculateRiskPremium(block) ==
  /\ call' = [op |-> "calculateRiskPremium", block |-> block,
              result |-> calculateRiskPremium(config, block)]
  /\ UNCHANGED <<config, snapshot, equipmentRates, laborRates, now, first, editor>>

\* policies.getMargin(costCategory, date)
GetMargin(costCategory, date) ==
  /\ call' = [op |-> "getMargin", costCategory |-> costCategory, date |-> date,
              result |-> getMargin(config, costCategory, date)]
  /\ UNCHANGED <<config, snapshot, equipmentRates, laborRates, now, first, editor>>

InitPolicies == now = Today /\ \E cfg \in PolicyConfigs : Constructed(cfg)
NextPolicies ==
  \/ \E block \in PolicyBlocks : CalculateRiskPremium(block)
  \/ \E c \in PolicyCategories, d \in PolicyDates : GetMargin(c, d)
SpecPolicies == InitPolicies /\ [][NextPolicies]_vars

\* value op literal as a numeric comparison, for the operators of the grammar
Compares(value, operator, literal) ==
  IF operator = <<">">> THEN value > literal
  ELSE IF operator = <<">", "=">> THEN value >= literal
  ELSE IF operator = <<"<">> THEN value < literal
  ELSE IF operator = <<"<", "=">> THEN value <= literal
  ELSE IF operator \in {<<"=">>, <<"=", "=">>} THEN value = literal
  ELSE value # literal

\* the rule's condition is true of the block
ConditionHolds(premium, block) ==
  /\ premium.attribute \in BlockValueKinds
  /\ premium.condition.operator \in GrammarOperators
  /\ Compares(BlockValue(premium.attribute, block), premium.condition.operator,
              premium.condition.literal)

\* C8: calculateRiskPremium applies exactly the rules whose condition is true of
\* the block, in rule order, and returns the plain sum of their percentages
C8_PremiumsStackAdditively ==
  call.op = "calculateRiskPremium" =>
    LET matching == SelectSeq(config.riskPremiums.premiums,
                              LAMBDA p : ConditionHolds(p, call.block))
    IN  /\ call.result.appliedPremiums =
             [i \in 1..Len(matching) |->
                [risk |-> matching[i].attribute, amount |-> matching[i].premiumPercent]]
        /\ call.result.premium =
             NSum([i \in 1..Len(matching) |-> matching[i].premiumPercent])

\* the first rule of the category whose window validFrom <= date < validTo holds
\* the date, a rule without validTo being unbounded above
InWindow(r, date) == date >= r.validFrom /\ (r.validTo = NoDate \/ date < r.validTo)

\* C9: getMargin returns the marginPercent of the first rule of the category
\* whose half-open window contains the date, and 0 when there is none
C9_MarginHalfOpenWindow ==
  call.op = "getMargin" =>
    LET rules == config.marginRules.rules
        hits == {i \in 1..Len(rules) :
                   rules[i].costCategory = call.costCategory /\ InWindow(rules[i], call.date)}
    IN  call.result = IF hits = {} THEN Num(0)
                      ELSE rules[CHOOSE i \in hits : \A j \in hits : i <= j].marginPercent

\* C10: a single rule applies to a block exactly when its attribute is one of
\* the four, its operator one of the seven, and attribute op literal holds
C10_ConditionGrammar ==
  (call.op = "calculateRiskPremium" /\ Len(config.riskPremiums.premiums) = 1)
    => ((call.result.appliedPremiums # <<>>)
          <=> ConditionHolds(config.riskPremiums.premiums[1], call.block))

-----------------------------------------------------------------------------
(* Project roll-up                                                         *)

MaxSchedule == 2

ProjectConfigs ==
  {MakeConfig(Rat(3, 2), Rat(4, 5), <<>>, <<>>, <<>>, <<>>, Num(10), years) :
     years \in {0, 1}}

BigBlock == Block("B1", 20, 3, 2, "Medium", 100, 5)
SmallBlock == Block("B2", 2, 3, 2, "hard", 100, 5)
EmptyBlock == Block("B2", 0, 3, 2, "hard", 100, 5)

\* a block of negative tonnage: its cost is that of SmallBlock with the sign turned
RefundBlock == Block("B1", -2, 3, 2, "hard", 100, 5)

BlockLists == {<<>>, <<BigBlock>>, <<BigBlock, SmallBlock>>, <<BigBlock, EmptyBlock>>}

\* period tokens: the first two months of the start year, the first month
\* of the next year, and a month beyond every horizon
SchedulePeriods == {202501, 202502, 202601, 203001}
ScheduleEntries ==
  {[blockId |-> id, period |-> p, sequence |-> 1] :
     id \in {"B1", "B2"}, p \in SchedulePeriods}
Schedules == SeqsUpTo(ScheduleEntries, MaxSchedule)

\* the schedules that mine in a single January: on these Math.pow has a whole
\* exponent wherever cash flows, and Newton's iterates stay exact
JanuarySchedules ==
  {sch \in Schedules :
     \E p \in {202501, 202601, 203001} : \A i \in 1..Len(sch) : sch[i].period = p}

\* SmallBlock mined in January 2025, RefundBlock in January 2026
CostThenRefund ==
  << [blockId |-> "B2", period |-> 202501, sequence |-> 1],
     [blockId |-> "B1", period |-> 202601, sequence |-> 1] >>

\* aggregator.generateCashflow(blocks, schedule)
GenerateCashflow(blocks, schedule) ==
  /\ call' = [op |-> "generateCashflow", blocks |-> blocks, schedule |-> schedule,
              result |-> generateCashflow(config, equipmentRates, laborRates, blocks,
                                          schedule, now)]
  /\ UNCHANGED <<config, snapshot, equipmentRates, laborRates, now, first, editor>>

\* engine.runFullProjection(blocks, schedule)
RunFullProjection(blocks, schedule) ==
  /\ call' = [op |-> "runFullProjection", blocks |-> blocks, schedule |-> schedule,
              result |-> runFullProjection(config, equipmentRates, laborRates, blocks,
                                           schedule, now)]
  /\ UNCHANGED <<config, snapshot, equipmentRates, laborRates, now, first, editor>>

InitProject == now = Today /\ \E cfg \in ProjectConfigs : Constructed(cfg)
NextProject ==
  \/ \E blocks \in BlockLists, schedule \in Schedules :
       call = NoCall /\ GenerateCashflow(blocks, schedule)
  \/ \E blocks \in BlockLists, schedule \in JanuarySchedules :
       call = NoCall /\ RunFullProjection(blocks, schedule)
  \/ call = NoCall /\ RunFullProjection(<<RefundBlock, SmallBlock>>, CostThenRefund)
  \/ Return
SpecProject == InitProject /\ [][NextProject]_vars

\* the last call returned a cash-flow series
HasCashflows ==
  call.op \in {"generateCashflow", "runFullProjection"} /\ call.result.status = "returned"

NetSeries(cashflows) == [i \in 1..Len(cashflows) |-> cashflows[i].netCashflow]

\* C4: when the Newton-Raphson iteration ends without a rate (limit reached, or
\* derivative below the tolerance), the summary's irr is the absent value
C4_IrrUnavailableIsAbsent ==
  (call.op = "runFullProjection" /\ call.result.status = "returned"
     /\ calculateIRR(NetSeries(call.result.cashflows)) = Null)
    => call.result.summary.irr = Null

\* C5: cumulativeCashflow[0] = netCashflow[0] and cumulativeCashflow[i] =
\* cumulativeCashflow[i-1] + netCashflow[i] for every later period
C5_CumulativeIsRunningSum ==
  HasCashflows =>
    LET cf == call.result.cashflows
    IN  \A i \in 1..Len(cf) :
          cf[i].cumulativeCashflow =
            IF i = 1 THEN cf[1].netCashflow
            ELSE NAdd(cf[i - 1].cumulativeCashflow, cf[i].netCashflow)

\* a series with cost in two periods: the later cumulative differs from the net
C5_Witness ==
  /\ HasCashflows
  /\ \E i, j \in 1..Len(call.result.cashflows) :
       /\ i < j
       /\ Sign(call.result.cashflows[i].netCashflow) < 0
       /\ Sign(call.result.cashflows[j].netCashflow) < 0
       /\ NLt(call.result.cashflows[j].cumulativeCashflow,
              call.result.cashflows[j].netCashflow)

\* C16: generateCashflow returns exactly 12 x (lifeOfMine.years + 1) periods,
\* one per calendar month from January of startYear to December of startYear +
\* years, in strictly increasing order, whatever the blocks and the schedule;
\* generateSummary reports that count as totalMonths.
C16_OnePeriodPerMonth ==
  call.op \in {"generateCashflow", "runFullProjection"} =>
    LET lifeOfMine == config.projectParameters.lifeOfMine IN
    /\ call.result.status = "returned"
    /\ Len(call.result.cashflows) = 12 * (lifeOfMine.years + 1)
    /\ \A i \in 1..Len(call.result.cashflows) :
         LET cf == call.result.cashflows[i] IN
         /\ cf.month \in 1..12
         /\ cf.year \in lifeOfMine.startYear..(lifeOfMine.startYear + lifeOfMine.years)
         /\ cf.period = PeriodToken(cf.year, cf.month)
         /\ i = 1 => (cf.year = lifeOfMine.startYear /\ cf.month = 1)
         /\ i > 1 =>
              LET before == call.result.cashflows[i - 1] IN
              \/ cf.year = before.year /\ cf.month = before.month + 1
              \/ cf.year = before.year + 1 /\ cf.month = 1 /\ before.month = 12
         /\ i = Len(call.result.cashflows) =>
              (cf.year = lifeOfMine.startYear + lifeOfMine.years /\ cf.month = 12)
    /\ call.op = "runFullProjection" =>
         call.result.summary.totalMonths = Len(call.result.cashflows)

\* a two-year horizon, with an entry scheduled beyond it
C16_Witness ==
  /\ call.op = "runFullProjection" /\ call.result.status = "returned"
  /\ config.projectParameters.lifeOfMine.years = 1
  /\ Len(call.result.cashflows) = 24
  /\ call.result.summary.totalMonths = 24
  /\ call.blocks # <<>>
  /\ \E j \in 1..Len(call.schedule) : call.schedule[j].period = 203001

\* the cost result of the supplied block carrying the id
ScheduledCost(blocks, id) ==
  calculateBlockCost(config, equipmentRates, laborRates,
                     CHOOSE b \in {blocks[i] : i \in 1..Len(blocks)} : b.blockId = id, now)

\* the sum, over the schedule entries of the period that name a supplied block,
\* of the total of the block's component
PeriodTotal(blocks, schedule, period, component) ==
  NSum([j \in 1..Len(schedule) |->
          IF /\ schedule[j].period = period
             /\ \E i \in 1..Len(blocks) : blocks[i].blockId = schedule[j].blockId
          THEN ScheduledCost(blocks, schedule[j].blockId)[component].total
          ELSE Num(0)])

\* C17: in every period capex.total and opex.total are the sums over the
\* schedule entries of that period (a repeated entry counted each time) of the
\* scheduled block's capexComponent.total and opexComponent.total, netCashflow
\* is -(capex.total + opex.total), and the sub-splits 70/20/10 of capex and
\* 40/20/15/15/5/5 of opex add up to their totals.
C17_PeriodTotalsAndSplits ==
  HasCashflows =>
    \A i \in 1..Len(call.result.cashflows) :
      LET cf == call.result.cashflows[i] IN
      /\ cf.capex.total = PeriodTotal(call.blocks, call.schedule, cf.period, "capexComponent")
      /\ cf.opex.total = PeriodTotal(call.blocks, call.schedule, cf.period, "opexComponent")
      /\ cf.netCashflow = NNeg(NAdd(cf.capex.total, cf.opex.total))
      /\ cf.capex.equipment = NMul(cf.capex.total, Rat(70, 100))
      /\ cf.capex.infrastructure = NMul(cf.capex.total, Rat(20, 100))
      /\ cf.capex.development = NMul(cf.capex.total, Rat(10, 100))
      /\ NAdd(NAdd(cf.capex.equipment, cf.capex.infrastructure), cf.capex.development)
           = cf.capex.total
      /\ cf.opex.mining = NMul(cf.opex.total, Rat(40, 100))
      /\ cf.opex.processing = NMul(cf.opex.total, Rat(20, 100))
      /\ cf.opex.maintenance = NMul(cf.opex.total, Rat(15, 100))
      /\ cf.opex.labor = NMul(cf.opex.total, Rat(15, 100))
      /\ cf.opex.energy = NMul(cf.opex.total, Rat(5, 100))
      /\ cf.opex.gAndA = NMul(cf.opex.total, Rat(5, 100))
      /\ NAdd(NAdd(NAdd(NAdd(NAdd(cf.opex.mining, cf.opex.processing),
                              cf.opex.maintenance), cf.opex.labor), cf.opex.energy),
              cf.opex.gAndA) = cf.opex.total

\* the same entry twice in one period: the period carries twice the block's cost
C17_Witness ==
  /\ HasCashflows
  /\ Len(call.schedule) = 2 /\ call.schedule[1] = call.schedule[2]
  /\ call.schedule[1].period = 202501 /\ call.schedule[1].blockId = "B1"
  /\ call.blocks = <<BigBlock>>
  /\ call.result.cashflows[1].opex.total =
       NMul(Num(2), ScheduledCost(call.blocks, "B1").opexComponent.total)
  /\ Sign(call.result.cashflows[1].netCashflow) < 0

\* C18: paybackMonths is the index of the first period whose cumulativeCashflow
\* is >= 0, and the number of periods when no period has one.
C18_PaybackMonths ==
  (call.op = "runFullProjection" /\ call.result.status = "returned") =>
    LET cf == call.result.cashflows
        payback == call.result.summary.paybackMonths
    IN  IF \E i \in 1..Len(cf) : NGe(cf[i].cumulativeCashflow, Num(0))
        THEN /\ payback \in 0..(Len(cf) - 1)
             /\ NGe(cf[payback + 1].cumulativeCashflow, Num(0))
             /\ \A i \in 1..payback : ~NGe(cf[i].cumulativeCashflow, Num(0))
        ELSE payback = Len(cf)

\* the cumulative cash flow is negative for a year, then back at zero
C18_Witness ==
  /\ call.op = "runFullProjection" /\ call.result.status = "returned"
  /\ Len(call.result.cashflows) = 24
  /\ call.result.summary.paybackMonths = 12
  /\ Sign(call.result.cashflows[1].cumulativeCashflow) < 0
  /\ call.result.cashflows[13].cumulativeCashflow = Num(0)

-----------------------------------------------------------------------------
(* RatesCalculator called directly                                         *)

Currencies == {"USD", "CAD", "EUR", "AUD", "GBP"}
\* a currency the table has no entry for
Unconfigured == "JPY"

\* FX tables: units of each currency per 1 USD
DefaultRates == MakeConfig(Num(1), Num(1), <<>>, <<>>, <<>>, <<>>, Num(0), 0).fxRates.rates
FxTables ==
  {DefaultRates,
   [DefaultRates EXCEPT !["CAD"] = Rat(1, 2), !["EUR"] = Num(2)],
   [DefaultRates EXCEPT !["AUD"] = Num(1), !["GBP"] = Rat(5, 4)]}

Item(code, baseCost, currency, salvageValue, years) ==
  [itemCode |-> code, baseCost |-> Num(baseCost), currency |-> currency,
   salvageValue |-> Num(salvageValue), usefulLife |-> [years |-> Num(years)],
   specs |-> [powerKW |-> Num(50)]]

\* cost 1,000,000 in the project currency, salvage 10%, useful life 10 years
Million(projectCurrency) == Item("million", 1000000, projectCurrency, 10, 10)

RatesItems ==
  {Item("loader", cost, cur, salvage, years) :
     cost \in {0, 60000, 1000000}, cur \in {"USD", "CAD", "EUR", Unconfigured},
     salvage \in {0, 10, 100}, years \in {5, 10}}

RatesConfigs ==
  {[MakeConfig(Rat(3, 2), Rat(4, 5), <<Million(pc), item>>, <<Operator>>, <<>>, <<>>, Num(0), 0)
      EXCEPT !.fxRates.rates = table, !.calculatorSettings.projectCurrency = pc] :
     item \in RatesItems, table \in FxTables, pc \in {"USD", "CAD"}}

\* this.getFXRate(from, to)
GetFXRate(from, to) ==
  /\ call' = [op |-> "getFXRate", from |-> from, to |-> to,
              result |-> getFXRate(config, from, to)]
  /\ UNCHANGED <<config, snapshot, equipmentRates, laborRates, now, first, editor>>

\* ratesCalculator.calculateEquipmentRates()
CalculateEquipmentRates ==
  /\ call' = [op |-> "calculateEquipmentRates", result |-> calculateEquipmentRates(config)]
  /\ UNCHANGED <<config, snapshot, equipmentRates, laborRates, now, first, editor>>

InitRates == now = Today /\ \E cfg \in RatesConfigs : Constructed(cfg)
NextRates ==
  \/ \E from \in Currencies \cup {Unconfigured}, to \in Currencies \cup {Unconfigured} :
       call = NoCall /\ GetFXRate(from, to)
  \/ call = NoCall /\ CalculateEquipmentRates
  \/ Return
SpecRates == InitRates /\ [][NextRates]_vars

\* the table rate of a currency, 1 for a currency without an entry
TableRate(c) ==
  IF c \in DOMAIN config.fxRates.rates THEN config.fxRates.rates[c] ELSE Num(1)

PositiveRate(c) == c = "USD" \/ NGt(TableRate(c), Num(0))

\* C12: for currencies A, B among USD and the configured ones with positive
\* rates, getFXRate(A, B) x getFXRate(B, A) is 1 and getFXRate(A, B) is
\* getFXRate(A, USD) x getFXRate(USD, B).
C12_FxRoundTripAndCompose ==
  (/\ call.op = "getFXRate"
   /\ call.from \in Currencies /\ call.to \in Currencies
   /\ PositiveRate(call.from) /\ PositiveRate(call.to)) =>
    /\ NMul(call.result, getFXRate(config, call.to, call.from)) = Num(1)
    /\ call.result = NMul(getFXRate(config, call.from, "USD"),
                           getFXRate(config, "USD", call.to))

\* a cross rate between two configured currencies, different from 1
C12_Witness ==
  /\ call.op = "getFXRate" /\ call.from = "CAD" /\ call.to = "EUR"
  /\ call.result # Num(1)
  /\ NMul(call.result, getFXRate(config, "EUR", "CAD")) = Num(1)

\* baseCost converted to the project currency
InProjectCurrency(item) ==
  NMul(item.baseCost,
       getFXRate(config, item.currency, config.calculatorSettings.projectCurrency))

\* C13: for every equipment item costPerYear is C x (1 - salvage%) / years +
\* 0.05 C + 0.02 C with C the base cost in the project currency, and
\* costPerMonth x 12 = costPerDay x 300 = costPerHour x 6000 = costPerYear;
\* cost 1,000,000, salvage 10%, 10 years gives depreciation 90,000 and 160,000.
C13_EquipmentRates ==
  call.op = "calculateEquipmentRates" =>
    \A i \in 1..Len(config.equipmentCatalog.items) :
      LET item == config.equipmentCatalog.items[i]
          rate == call.result[i]
      IN  /\ rate.costPerYear =
               NAdd(NAdd(NDiv(NMul(InProjectCurrency(item),
                                   NSub(Num(1), NDiv(item.salvageValue, Num(100)))),
                              item.usefulLife.years),
                         NMul(Rat(5, 100), InProjectCurrency(item))),
                    NMul(Rat(2, 100), InProjectCurrency(item)))
          /\ NMul(rate.costPerMonth, Num(12)) = rate.costPerYear
          /\ NMul(rate.costPerDay, Num(300)) = rate.costPerYear
          /\ NMul(rate.costPerHour, Num(6000)) = rate.costPerYear
          /\ item.itemCode = "million" =>
               /\ NMul(rate.depreciationPerHour, Num(6000)) = Num(90000)
               /\ rate.costPerYear = Num(160000)

\* the rates of the 1,000,000 item and of an item bought in another currency
C13_Witness ==
  /\ call.op = "calculateEquipmentRates"
  /\ call.result[1].costPerYear = Num(160000)
  /\ config.equipmentCatalog.items[2].currency = "EUR"
  /\ config.calculatorSettings.projectCurrency = "CAD"
  /\ call.result[2].costPerYear # Num(0)

-----------------------------------------------------------------------------
(* The penetration-rate fallback                                           *)

\* penetrationRate lists of every length from none to the three of the default
PenetrationLists ==
  {SubSeq(PenetrationRates(Rat(3, 2)), 1, n) : n \in 0..3}
    \cup {<< PenetrationRates(Rat(3, 2))[2], PenetrationRates(Rat(3, 2))[1] >>,
          << PenetrationRates(Rat(3, 2))[3] >>}

FallbackConfigs ==
  {[MakeConfig(Rat(3, 2), Rat(4, 5), cat[1], cat[2], <<>>, <<>>, Num(contingency), 0)
      EXCEPT !.projectParameters.penetrationRate = list] :
     list \in PenetrationLists,
     cat \in {<< <<>>, <<>> >>, << <<Drill>>, <<Operator, Supervisor>> >>},
     contingency \in {0, 10}}

FallbackBlocks ==
  {Block("B1", t, 3, 2, rock, 100, 7) :
     t \in 1..MaxTonnage, rock \in {"Soft", "medium", "HARD", "granite", "basalt"}}

InitFallback == now = Today /\ \E cfg \in FallbackConfigs : Constructed(cfg)
NextFallback ==
  \/ \E block \in FallbackBlocks : call = NoCall /\ CalculateBlock(block) /\ UNCHANGED first
  \/ Return
SpecFallback == InitFallback /\ [][NextFallback]_vars

\* C14: when the block's rock type matches no penetrationRate entry, the
\* calculation completes normally and its figures are those of the second
\* configured entry, for every penetrationRate list.
C14_FallbackNeverAnError ==
  (call.op = "calculateBlock" /\ ~RockTypeResolves(config, call.block)) =>
    /\ call.result.status = "returned"
    /\ Len(config.projectParameters.penetrationRate) >= 2
    /\ call.result =
         calculateBlockCost(config, equipmentRates, laborRates,
           [call.block EXCEPT !.rockType = config.projectParameters.penetrationRate[2].rockType],
           now)

-----------------------------------------------------------------------------
(* The cost breakdown                                                      *)

\* valid configurations: premiums that add, that leave and that cancel the subtotal
BreakdownConfigs ==
  {MakeConfig(Rat(3, 2), Rat(4, 5), cat[1], cat[2], premiums, rules, Num(contingency), 0) :
     cat \in {<< <<>>, <<>> >>, << <<Drill>>, <<Operator, Supervisor>> >>},
     premiums \in {<<>>,
                   <<Premium("depth", <<">">>, 500, 5)>>,
                   <<Premium("depth", <<">">>, 500, -100)>>,
                   <<Premium("depth", <<">">>, 500, -10)>>},
     rules \in {<<>>, <<MarginRule("labor", 10, 20250101, NoDate)>>},
     contingency \in {0, 10}}

\* valid blocks: positive tonnage, regular geometry, a rock type that resolves
BreakdownBlocks ==
  {Block("B1", t, 3, 2, rock, depth, 7) :
     t \in 1..MaxTonnage, rock \in {"Medium", "hard"}, depth \in {100, 600}}

InitBreakdown == now = Today /\ \E cfg \in BreakdownConfigs : Constructed(cfg)
NextBreakdown ==
  \/ \E block \in BreakdownBlocks : call = NoCall /\ CalculateBlock(block) /\ UNCHANGED first
  \/ Return
SpecBreakdown == InitBreakdown /\ [][NextBreakdown]_vars

\* the pre-adjustment category costs, in the order of the breakdown
CategoryCosts(result) ==
  << result.opexComponent.labor, result.opexComponent.consumables,
     result.opexComponent.energy, result.opexComponent.maintenance,
     result.opexComponent.overhead, result.capexComponent.equipmentDepreciation,
     result.capexComponent.infrastructureAllocation >>

PercentSum(result) ==
  NSum([i \in 1..Len(result.breakdown) |-> result.breakdown[i].percentOfTotal])

\* C15: each breakdown entry's percentOfTotal is its pre-adjustment category
\* cost / grandTotal x 100, the breakdown costs sum to subtotal, the
\* percentages sum to 100 x subtotal / grandTotal, which is exactly 100 when the
\* adjustments net to zero and differs from 100 otherwise.
C15_BreakdownPercentages ==
  Returned =>
    LET r == call.result IN
    /\ Len(r.breakdown) = Len(CategoryCosts(r))
    /\ \A i \in 1..Len(r.breakdown) :
         /\ r.breakdown[i].cost = CategoryCosts(r)[i]
         /\ r.breakdown[i].percentOfTotal =
              NMul(NDiv(CategoryCosts(r)[i], r.grandTotal), Num(100))
    /\ NSum(CategoryCosts(r)) = r.subtotal
    /\ PercentSum(r) = NMul(Num(100), NDiv(r.subtotal, r.grandTotal))
    /\ IF NSub(r.grandTotal, r.subtotal) = Num(0)
       THEN PercentSum(r) = Num(100)
       ELSE PercentSum(r) # Num(100)

-----------------------------------------------------------------------------
(* The IRR loop, pass by pass                                              *)

\* the two-period series of the specification's example, entries a month apart
TwoPeriod == << Num(-1000), Num(1100) >>
\* the same amounts twelve entries apart
TwelveApart ==
  [t \in 1..13 |-> IF t = 1 THEN Num(-1000) ELSE IF t = 13 THEN Num(1100) ELSE Num(0)]

IrrSeries ==
  {TwoPeriod, TwelveApart, <<>>, << Num(0), Num(0) >>, << Num(-1000) >>,
   << NAN, Num(1100) >>, << NINF, Num(0) >>,
   [t \in 1..13 |-> IF t = 13 THEN Num(-7) ELSE Num(0)],
   [t \in 1..13 |-> IF t = 1 THEN Num(-7) ELSE IF t = 13 THEN Num(7) ELSE Num(0)]}

\* this.calculateIRR(cashflows): rate = guess, i = 0
CalculateIRR(cashflows) ==
  /\ call' = [op |-> "calculateIRR", cashflows |-> cashflows,
              at |-> NewtonStart(Rat(1, 10)), i |-> 0]
  /\ UNCHANGED <<config, snapshot, equipmentRates, laborRates, now, first, editor>>

\* one pass of the loop body, then i++
IrrPass ==
  /\ call.op = "calculateIRR" /\ ~call.at.returned /\ WithinIterations(call.i)
  /\ call' = [call EXCEPT !.at = NewtonPass(call.cashflows, call.at), !.i = @ + 1]
  /\ UNCHANGED <<config, snapshot, equipmentRates, laborRates, now, first, editor>>

\* the loop condition fails: return null
IrrExhausted ==
  /\ call.op = "calculateIRR" /\ ~call.at.returned /\ ~WithinIterations(call.i)
  /\ call' = [call EXCEPT !.at.returned = TRUE]
  /\ UNCHANGED <<config, snapshot, equipmentRates, laborRates, now, first, editor>>

\* the caller takes the value calculateIRR returned
IrrReturn == call.op = "calculateIRR" /\ call.at.returned /\ Return

InitIrr == now = Today /\ \E cfg \in ProjectConfigs : Constructed(cfg)
NextIrr ==
  \/ \E cashflows \in IrrSeries : call = NoCall /\ CalculateIRR(cashflows)
  \/ IrrPass
  \/ IrrExhausted
  \/ IrrReturn
SpecIrr == InitIrr /\ [][NextIrr]_vars
\* the loop runs on, no pass waits for anything: weak fairness of NextIrr,
\* which is enabled in every state (a call can start, a pass or the return
\* null can follow, the value can be taken), so WF_vars(NextIrr) is the
\* formula below
SpecIrrFair == SpecIrr /\ []<><<NextIrr>>_vars

\* C19: for the two-period series [-1000, 1100] the IRR computation resolves
\* to a rate within 0.1 percentage point of 10%.
C19_TwoPeriodIrrIsTenPercent ==
  (call.op = "calculateIRR" /\ call.cashflows = TwoPeriod /\ call.at.returned) =>
    /\ call.at.value # Null
    /\ NLe(NAbs(NSub(call.at.value, Rat(10, 100))), Rat(1, 1000))

\* the outcome of a finished calculateIRR call: a rate reached by a step below
\* the tolerance, or null with the derivative below the tolerance or the
\* passes used up; it is the value of calculateIRR, which generateSummary reads
IrrOutcomeAccounted ==
  (call.op = "calculateIRR" /\ call.at.returned) =>
    /\ call.at.value = calculateIRR(call.cashflows)
    /\ IF call.at.value # Null
       THEN NLt(NAbs(NSub(call.at.value, call.at.rate)), Rat(1, 10000))
       ELSE \/ NLt(NAbs(DerivAt(call.cashflows, call.at.rate)), Rat(1, 10000))
            \/ call.i = 100

\* C20: the IRR root-finding always terminates: it makes at most 100 passes
\* and then has returned a rate (step below 1e-4) or null (derivative
\* magnitude below 1e-4, or the limit reached).
C20_IrrTerminates ==
  /\ [](call.op = "calculateIRR" => call.i <= 100)
  /\ []IrrOutcomeAccounted
  /\ (call.op = "calculateIRR") ~> (call.op = "calculateIRR" /\ call.at.returned)

\* a call that used up its 100 passes on a rate that is NaN and returned null
C20_Witness ==
  /\ call.op = "calculateIRR" /\ call.at.returned
  /\ call.i = 100 /\ call.at.value = Null
  /\ IsNaN(call.at.rate)

-----------------------------------------------------------------------------
(* Rate recalculation                                                      *)

\* a configuration that carries rate tables from an earlier recalculation
Carrying(cfg, eqRates, labRates, fuel) ==
  [f \in (DOMAIN cfg) \cup DerivedTables |->
     IF f = "equipmentRates" THEN eqRates
     ELSE IF f = "laborRates" THEN labRates
     ELSE IF f = "fuelRates" THEN fuel
     ELSE cfg[f]]

\* the configuration without rate tables, with the tables of another catalog,
\* and with empty tables
RecalcConfigs ==
  {LiveConfig,
   Carrying(LiveConfig,
            calculateEquipmentRates([LiveConfig EXCEPT
                                       !.equipmentCatalog.items[1].baseCost = Num(30000)]),
            calculateLaborRates([LiveConfig EXCEPT !.laborCatalog.roles = <<Supervisor>>]),
            <<>>),
   Carrying(LiveConfig, <<>>, <<>>, calculateFuelRates)}

\* engine.recalculateRates()
RecalculateRates ==
  /\ call' = [op |-> "recalculateRates", result |-> recalculateRates(config)]
  /\ UNCHANGED <<config, snapshot, equipmentRates, laborRates, now, first, editor>>

InitRecalc == now = Today /\ \E cfg \in RecalcConfigs : Constructed(cfg)
NextRecalc ==
  \/ call = NoCall /\ RecalculateRates
  \/ call = NoCall /\ CallerEdit
  \/ \E block \in LiveBlocks : call = NoCall /\ CalculateBlock(block) /\ UNCHANGED first
  \/ Return
SpecRecalc == InitRecalc /\ [][NextRecalc]_vars

\* C21: a recalculateRates call leaves every field of the configuration object
\* as it was, the rate tables it carried included, and returns a configuration
\* equal to it in every field but equipmentRates, laborRates and fuelRates,
\* which hold the tables derived from it at the call.
C21_RecalculateRatesIsPure ==
  [][(call # call' /\ call'.op = "recalculateRates") =>
       /\ config' = config
       /\ equipmentRates' = equipmentRates /\ laborRates' = laborRates
       /\ DOMAIN call'.result = (DOMAIN config) \cup DerivedTables
       /\ \A f \in (DOMAIN config) \ DerivedTables : call'.result[f] = config[f]
       /\ call'.result.equipmentRates = calculateEquipmentRates(config)
       /\ call'.result.laborRates = calculateLaborRates(config)
       /\ call'.result.fuelRates = calculateFuelRates]_vars

\* a call on a configuration that carried other tables and was edited since
\* the engine was constructed: the tables returned are neither the carried
\* ones nor the engine's cached ones
C21_Witness ==
  /\ call.op = "recalculateRates"
  /\ "equipmentRates" \in DOMAIN config
  /\ config.equipmentRates # <<>>
  /\ call.result.equipmentRates # config.equipmentRates
  /\ call.result.equipmentRates # equipmentRates
  /\ call.result.laborRates # config.laborRates
  /\ call.result.equipmentCatalog = config.equipmentCatalog

-----------------------------------------------------------------------------
(* Sensitivity analysis                                                    *)

\* the variable names: the three supported ones and one other
SupportedVariables == {"discount_rate", "equipment_cost", "labor_cost"}
SensitivityVariables == SupportedVariables \cup {"fuel_cost"}

\* the percentages asked for: alone, in both orders, repeated
VariationLists ==
  {<<>>, <<Num(0)>>, <<Num(10)>>, <<Num(-10)>>, <<Num(0), Num(10)>>, <<Num(10), Num(0)>>,
   <<Num(10), Num(10)>>, <<Num(10), Num(-10), Num(0)>>}

\* a small drill and a part-time operator: a block costs some fifty units, in
\* thousandths at the finest, under every variation
SmallDrill == Item("drill", 30000, "USD", 10, 10)
PartTimer ==
  [roleCode |-> "direct_operator", annualRate |-> Num(4160), currency |-> "USD",
   burdenRate |-> Rat(3, 2), utilizationFactor |-> Rat(1, 2)]

\* one equipment item and one labor role, over a one- and a two-year horizon
SensitivityConfigs ==
  {MakeConfig(Num(2), Num(1), <<SmallDrill>>, <<PartTimer>>,
              <<Premium("depth", <<">">>, 50, 5)>>, <<>>, Num(10), years) :
     years \in {0, 1}}

\* an hour of mining each, two tonnes and one
HourBlock == Block("B1", 2, 2, 1, "Medium", 100, 5)
LightBlock == Block("B2", 1, 2, 1, "Medium", 100, 5)
SensitivityBlockLists == {<<HourBlock>>, <<HourBlock, LightBlock>>}

Entry(blockId, period) == [blockId |-> blockId, period |-> period, sequence |-> 1]

\* nothing scheduled; one block in the first month, in the thirteenth, beyond
\* every horizon; two blocks and one block twice in the thirteenth month
SensitivitySchedules ==
  {<<>>, <<Entry("B1", 202501)>>, <<Entry("B1", 202601)>>, <<Entry("B1", 203001)>>,
   <<Entry("B1", 202601), Entry("B2", 202601)>>,
   <<Entry("B2", 202601), Entry("B2", 202601)>>}

\* engine.runSensitivity(blocks, schedule, variable, variations)
RunSensitivity(blocks, schedule, variable, variations) ==
  /\ call' = [op |-> "runSensitivity", blocks |-> blocks, schedule |-> schedule,
              variable |-> variable, variations |-> variations,
              result |-> runSensitivity(config, blocks, schedule, variable, variations, now)]
  /\ UNCHANGED <<config, snapshot, equipmentRates, laborRates, now, first, editor>>

InitSensitivity == now = Today /\ \E cfg \in SensitivityConfigs : Constructed(cfg)
NextSensitivity ==
  \/ \E blocks \in SensitivityBlockLists, schedule \in SensitivitySchedules,
        variable \in SensitivityVariables, variations \in VariationLists :
       call = NoCall /\ RunSensitivity(blocks, schedule, variable, variations)
  \/ \E blocks \in SensitivityBlockLists, schedule \in SensitivitySchedules :
       call = NoCall /\ RunFullProjection(blocks, schedule)
  \/ Return
SpecSensitivity == InitSensitivity /\ [][NextSensitivity]_vars

\* the configuration with one family multiplied by (100 + variation) / 100
FamilyScaled(cfg, variable, variation) ==
  LET factor == NDiv(NAdd(Num(100), variation), Num(100)) IN
  [family \in DOMAIN cfg |->
     IF family = "aggregatorSettings" /\ variable = "discount_rate" THEN
       [cfg.aggregatorSettings EXCEPT !.discountRate = NMul(factor, @)]
     ELSE IF family = "equipmentCatalog" /\ variable = "equipment_cost" THEN
       [items |-> [i \in DOMAIN cfg.equipmentCatalog.items |->
                     [cfg.equipmentCatalog.items[i] EXCEPT !.baseCost = NMul(factor, @)]]]
     ELSE IF family = "laborCatalog" /\ variable = "labor_cost" THEN
       [roles |-> [i \in DOMAIN cfg.laborCatalog.roles |->
                     [cfg.laborCatalog.roles[i] EXCEPT !.annualRate = NMul(factor, @)]]]
     ELSE cfg[family]]

\* npv and irr of a projection
NpvAndIrr(projection) == <<projection.summary.npv, projection.summary.irr>>

\* npv and irr of a sensitivity record
RecordNpvAndIrr(record) == <<record.npv, record.irr>>

\* C22: runSensitivity returns one {variation, npv, irr} record per requested
\* variation, in request order; for a supported variable the record's npv and
\* irr are those of runFullProjection on a separate engine over the
\* configuration with that family multiplied by (1 + variation/100) and
\* nothing else changed; variation 0 reproduces the base projection.
C22_SensitivityRecords ==
  call.op = "runSensitivity" =>
    /\ call.result.status = "returned"
    /\ Len(call.result.results) = Len(call.variations)
    /\ \A i \in 1..Len(call.variations) :
         /\ DOMAIN call.result.results[i] = {"variation", "npv", "irr"}
         /\ call.result.results[i].variation = call.variations[i]
         /\ call.variable \in SupportedVariables =>
              /\ RecordNpvAndIrr(call.result.results[i]) =
                   NpvAndIrr(ProjectionOver(
                               FamilyScaled(config, call.variable, call.variations[i]),
                               call.blocks, call.schedule, now))
              /\ call.variations[i] = Num(0) =>
                   RecordNpvAndIrr(call.result.results[i]) =
                     NpvAndIrr(runFullProjection(config, equipmentRates, laborRates,
                                                 call.blocks, call.schedule, now))

\* three variations of a supported family on a schedule that is discounted:
\* three records in request order, three different npv
C22_Witness ==
  /\ call.op = "runSensitivity" /\ call.result.status = "returned"
  /\ call.variable \in SupportedVariables
  /\ call.variations = <<Num(10), Num(-10), Num(0)>>
  /\ Len(call.result.results) = 3
  /\ call.result.results[2].variation = Num(-10)
  /\ NLt(call.result.results[1].npv, call.result.results[3].npv)
  /\ NLt(call.result.results[3].npv, call.result.results[2].npv)
  /\ NLt(call.result.results[2].npv, Num(0))

\* C23: for a variable name other than discount_rate, equipment_cost and
\* labor_cost runSensitivity completes, and every record it returns carries the
\* npv and irr of the unmodified configuration, whatever the percentage.
C23_UnsupportedVariableIsBase ==
  (call.op = "runSensitivity" /\ call.variable \notin SupportedVariables) =>
    /\ call.result.status = "returned"
    /\ Len(call.result.results) = Len(call.variations)
    /\ \A i \in 1..Len(call.result.results) :
         RecordNpvAndIrr(call.result.results[i]) =
           NpvAndIrr(runFullProjection(config, equipmentRates, laborRates, call.blocks,
                                       call.schedule, now))

\* an unsupported name with three percentages on a discounted schedule: the
\* three records carry one and the same npv, below zero
C23_Witness ==
  /\ call.op = "runSensitivity" /\ call.variable = "fuel_cost"
  /\ call.result.status = "returned"
  /\ call.variations = <<Num(10), Num(-10), Num(0)>>
  /\ Len(call.result.results) = 3
  /\ call.result.results[1].npv = call.result.results[2].npv
  /\ call.result.results[2].npv = call.result.results[3].npv
  /\ NLt(call.result.results[1].npv, Num(0))
  /\ \E j \in 1..Len(call.schedule) : call.schedule[j].period = 202601
  /\ config.projectParameters.lifeOfMine.years = 1

\* the schedule has an entry inside the horizon that names a supplied block
MinesInHorizon(cfg, blocks, schedule) ==
  LET lifeOfMine == cfg.projectParameters.lifeOfMine IN
  \E j \in 1..Len(schedule) :
    /\ \E i \in 1..Len(blocks) : blocks[i].blockId = schedule[j].blockId
    /\ schedule[j].period >= PeriodToken(lifeOfMine.startYear, 1)
    /\ schedule[j].period <= PeriodToken(lifeOfMine.startYear + lifeOfMine.years, 12)

\* a non-empty equipment catalog with positive base costs
PositiveCatalog(cfg) ==
  /\ cfg.equipmentCatalog.items # <<>>
  /\ \A k \in 1..Len(cfg.equipmentCatalog.items) :
       NGt(cfg.equipmentCatalog.items[k].baseCost, Num(0))

\* C24: the variable equipment_cost at +10% multiplies every catalog item's
\* baseCost by 1.10 and changes nothing else; when the schedule mines inside the
\* horizon and the catalog is non-empty with positive base costs, the npv of
\* that variation is strictly lower than the npv of the unvaried base case.
C24_EquipmentCostLowersNpv ==
  (call.op = "runSensitivity" /\ call.variable = "equipment_cost") =>
    /\ applyVariation(config, "equipment_cost", Num(10)) =
         [config EXCEPT !.equipmentCatalog.items =
            [k \in 1..Len(@) |-> [@[k] EXCEPT !.baseCost = NMul(Rat(110, 100), @)]]]
    /\ call.result.status = "returned"
    /\ (MinesInHorizon(config, call.blocks, call.schedule) /\ PositiveCatalog(config)) =>
         \A i \in 1..Len(call.variations) :
           call.variations[i] = Num(10) =>
             NLt(call.result.results[i].npv,
                 runFullProjection(config, equipmentRates, laborRates, call.blocks,
                                   call.schedule, now).summary.npv)

\* equipment_cost at +10% and at 0 on a schedule that mines in the horizon: the
\* base cost of the drill goes from 30000 to 33000 and the npv falls
C24_Witness ==
  /\ call.op = "runSensitivity" /\ call.variable = "equipment_cost"
  /\ call.result.status = "returned"
  /\ call.variations = <<Num(10), Num(0)>>
  /\ MinesInHorizon(config, call.blocks, call.schedule)
  /\ config.equipmentCatalog.items[1].baseCost = Num(30000)
  /\ applyVariation(config, "equipment_cost", Num(10)).equipmentCatalog.items[1].baseCost
       = Num(33000)
  /\ NLt(call.result.results[1].npv, call.result.results[2].npv)

-----------------------------------------------------------------------------
(* Sensitivity analysis next to the base engine's own calls                *)

\* a schedule of one block and one of two, both in the thirteenth month
IndependentSchedules ==
  {<<Entry("B1", 202601)>>, <<Entry("B1", 202601), Entry("B2", 202601)>>}

InitIndependent == now = Today /\ \E cfg \in SensitivityConfigs : Constructed(cfg)
NextIndependent ==
  \/ \E schedule \in IndependentSchedules, variable \in SensitivityVariables,
        variations \in VariationLists :
       call = NoCall /\ RunSensitivity(<<HourBlock, LightBlock>>, schedule, variable,
                                       variations)
  \/ \E block \in {HourBlock, LightBlock} : call = NoCall /\ CalculateBlockRecorded(block)
  \/ \E schedule \in IndependentSchedules :
       call = NoCall /\ RunFullProjection(<<HourBlock, LightBlock>>, schedule)
  \/ Return
SpecIndependent == InitIndependent /\ [][NextIndependent]_vars

\* the record runSensitivity returns for one percentage asked for alone
RecordAlone(variation) ==
  runSensitivity(config, call.blocks, call.schedule, call.variable, <<variation>>,
                 now).results[1]

\* C25: the variations of one runSensitivity call are independent: the record
\* for a percentage is the record that percentage gets when asked for alone,
\* whatever else is in the list and in whatever order; a runSensitivity call
\* leaves the base engine's configuration and rate tables as they were, and
\* calculateBlock and runFullProjection return afterwards what they returned
\* before.
C25_VariationsIndependent ==
  /\ [](call.op = "runSensitivity" =>
          /\ call.result.status = "returned"
          /\ \A i \in 1..Len(call.variations) :
               call.result.results[i] = RecordAlone(call.variations[i]))
  /\ [][(call'.op = "runSensitivity" \/ call.op = "runSensitivity") =>
          (config' = config /\ equipmentRates' = equipmentRates
                            /\ laborRates' = laborRates)]_vars
  /\ []((Returned /\ first[call.block.blockId] # NoCall) =>
          call.result = first[call.block.blockId].result)
  /\ [](call.op = "runFullProjection" =>
          call.result = runFullProjection(snapshot, calculateEquipmentRates(snapshot),
                                          calculateLaborRates(snapshot), call.blocks,
                                          call.schedule, now))

\* +10% asked for twice in one call, after calculateBlock has already returned
\* for both blocks: the two records are equal, and below the base npv
C25_Witness ==
  /\ call.op = "runSensitivity" /\ call.result.status = "returned"
  /\ call.variable \in SupportedVariables
  /\ call.variations = <<Num(10), Num(10)>>
  /\ call.result.results[1] = call.result.results[2]
  /\ first["B1"] # NoCall /\ first["B2"] # NoCall
  /\ call.result.results[1].npv # RecordAlone(Num(0)).npv

-----------------------------------------------------------------------------
(* CostModelConfigurator: the editor in front of the engine                *)

MaxAudit == 2

\* the configuration the editor is mounted with: valid, with the fields that
\* validate and handleChange read on top of those the engine reads
InitialConfig ==
  LET cfg == MakeConfig(Num(2), Rat(9, 10), <<SmallDrill>>, <<PartTimer>>, <<>>, <<>>,
                        Num(10), 1)
  IN  [key \in DOMAIN cfg \cup {"lastModified"} |->
         IF key = "lastModified" THEN Today
         ELSE IF key = "projectParameters" THEN
           [field \in DOMAIN cfg.projectParameters \cup {"specificGravity"} |->
              IF field = "specificGravity" THEN Rat(27, 10)
              ELSE cfg.projectParameters[field]]
         ELSE cfg[key]]

\* useState({config: initialConfig, ...})
InitialState(initialConfig) ==
  [config |-> initialConfig, activeTab |-> "config", activeSubTab |-> "fx",
   isDirty |-> FALSE, validationErrors |-> <<>>, auditLog |-> <<>>,
   isCalculating |-> FALSE]

Mounted(initialConfig, readOnly) ==
  [mounted |-> TRUE, readOnly |-> readOnly, state |-> InitialState(initialConfig)]

\* errors.push(...) when the condition holds
PushedIf(condition, error) == IF condition THEN <<error>> ELSE <<>>

\* the entries the forEach over the catalog items pushes, in item order
RECURSIVE ItemErrors(_, _)
ItemErrors(items, idx) ==
  IF idx > Len(items) THEN <<>>
  ELSE PushedIf(NLt(items[idx].baseCost, Num(0)),
                [field |-> "equipmentCatalog.items[idx].baseCost", idx |-> idx - 1,
                 item |-> items[idx].itemCode, message |-> "Cost cannot be negative",
                 severity |-> "error"])
       \o ItemErrors(items, idx + 1)

\* validate(config)
validate(cfg) ==
  PushedIf(NLe(cfg.fxRates.rates["CAD"], Num(0)),
           [field |-> "fxRates.rates.CAD", message |-> "CAD rate must be positive",
            severity |-> "error"])
  \o PushedIf(NLt(cfg.projectParameters.specificGravity, Num(1))
                \/ NGt(cfg.projectParameters.specificGravity, Num(10)),
              [field |-> "projectParameters.specificGravity",
               message |-> "Specific gravity typically between 1-10",
               severity |-> "warning"])
  \o PushedIf(NGt(cfg.projectParameters.availability.planned, Num(1)),
              [field |-> "projectParameters.availability.planned",
               message |-> "Availability cannot exceed 100%", severity |-> "error"])
  \o ItemErrors(cfg.equipmentCatalog.items, 1)
  \o PushedIf(NLt(cfg.calculatorSettings.contingencyPercent, Num(0))
                \/ NGt(cfg.calculatorSettings.contingencyPercent, Num(50)),
              [field |-> "calculatorSettings.contingencyPercent",
               message |-> "Contingency typically 0-50%", severity |-> "warning"])

\* errors.some((e) => e.severity === 'error')
SomeError(errors) == \E i \in 1..Len(errors) : errors[i].severity = "error"

\* handleChange(key, value, fieldPath): the edit is stored and logged as it comes
handleChange(state, key, value, fieldPath, date) ==
  [state EXCEPT
     !.config = [[@ EXCEPT ![key] = value] EXCEPT !.lastModified = date],
     !.isDirty = TRUE,
     !.auditLog = Append(@, [id |-> date, timestamp |-> date, layer |-> state.activeTab,
                             entity |-> key, field |-> fieldPath,
                             oldValue |-> state.config[key], newValue |-> value,
                             changedBy |-> "current-user",
                             changeReason |-> "Manual edit"])]

\* what the inputs of the CONFIG tab can send: the CAD rate (an emptied input
\* reads as 0), the planned availability, the base cost of the first item
Edits(cfg) ==
  {<<"fxRates", [cfg.fxRates EXCEPT !.rates["CAD"] = rate]>> :
     rate \in {Num(0), Rat(136, 100)}}
  \cup {<<"projectParameters", [cfg.projectParameters EXCEPT !.availability.planned = p]>> :
          p \in {Rat(12, 10), Rat(9, 10)}}
  \cup {<<"equipmentCatalog",
          [cfg.equipmentCatalog EXCEPT !.items[1].baseCost = baseCost]>> :
          baseCost \in {Num(-1), Num(30000)}}

\* an input of the CONFIG tab changes
HandleChange ==
  /\ editor.mounted /\ ~editor.readOnly
  /\ Len(editor.state.auditLog) < MaxAudit
  /\ \E edit \in Edits(editor.state.config) :
       editor' = [editor EXCEPT !.state = handleChange(@, edit[1], edit[2], edit[1], now)]
  /\ UNCHANGED <<config, snapshot, equipmentRates, laborRates, now, call, first>>

\* the Validate button
ClickValidate ==
  /\ editor.mounted
  /\ editor' = [editor EXCEPT !.state.validationErrors = validate(editor.state.config)]
  /\ UNCHANGED <<config, snapshot, equipmentRates, laborRates, now, call, first>>

\* the Save button, disabled when read-only or when the stored validation
\* errors hold an error
ClickSave ==
  /\ editor.mounted
  /\ ~(editor.readOnly \/ SomeError(editor.state.validationErrors))
  /\ call' = [op |-> "onSave", config |-> editor.state.config]
  /\ UNCHANGED <<config, snapshot, equipmentRates, laborRates, now, first, editor>>

\* the Run Calculator button, disabled while isCalculating
ClickRunCalculator ==
  /\ editor.mounted
  /\ ~editor.state.isCalculating
  /\ call' = [op |-> "onCalculate", config |-> editor.state.config]
  /\ UNCHANGED <<config, snapshot, equipmentRates, laborRates, now, first, editor>>

InitEditor ==
  /\ now = Today
  /\ config = InitialConfig /\ snapshot = InitialConfig
  /\ equipmentRates = calculateEquipmentRates(InitialConfig)
  /\ laborRates = calculateLaborRates(InitialConfig)
  /\ call = NoCall /\ first = NoFirst
  /\ \E readOnly \in BOOLEAN : editor = Mounted(InitialConfig, readOnly)
NextEditor ==
  \/ call = NoCall /\ HandleChange
  \/ call = NoCall /\ ClickValidate
  \/ call = NoCall /\ ClickSave
  \/ call = NoCall /\ ClickRunCalculator
  \/ Return
SpecEditor == InitEditor /\ [][NextEditor]_vars

\* C26: the configuration the editor passes to onSave or onCalculate passes
\* validate without an error-severity entry, after every sequence of edits and
\* of Validate, Save and Run Calculator clicks.
C26_HandedOutConfigIsValid ==
  call.op \in {"onSave", "onCalculate"} => ~SomeError(validate(call.config))

-----------------------------------------------------------------------------
(* Project cash flow and the policy adjustments                            *)

\* a 10% depth premium, a 10% labor margin in force and 10% contingency or
\* none, on the small drill and the part-time operator, over one and two years
CashflowConfigs ==
  {MakeConfig(Num(2), Num(1), <<SmallDrill>>, <<PartTimer>>,
              <<Premium("depth", <<">">>, 50, 10)>>,
              <<MarginRule("labor", 10, 20250101, NoDate)>>, contingencyPercent, years) :
     contingencyPercent \in {Num(0), Num(10)}, years \in {0, 1}}

InitCashflow == now = Today /\ \E cfg \in CashflowConfigs : Constructed(cfg)
NextCashflow ==
  \/ \E blocks \in SensitivityBlockLists, schedule \in SensitivitySchedules :
       call = NoCall /\ RunFullProjection(blocks, schedule)
  \/ \E blocks \in SensitivityBlockLists, schedule \in SensitivitySchedules :
       call = NoCall /\ GenerateCashflow(blocks, schedule)
  \/ \E block \in {HourBlock, LightBlock} :
       call = NoCall /\ CalculateBlock(block) /\ UNCHANGED first
  \/ Return
SpecCashflow == InitCashflow /\ [][NextCashflow]_vars

\* the schedule entries that lie in a period of the horizon and name a supplied
\* block, in schedule order
EntriesInHorizon(cfg, blocks, schedule) ==
  LET horizon == HorizonOf(cfg) IN
  SelectSeq(schedule, LAMBDA sch :
    /\ \E i \in 1..Len(blocks) : blocks[i].blockId = sch.blockId
    /\ \E h \in 1..Len(horizon) :
         sch.period = PeriodToken(horizon[h].year, horizon[h].month))

\* the configuration with its risk premiums, margin rules and contingency taken out
WithoutPolicies(cfg) ==
  [cfg EXCEPT !.riskPremiums.premiums = <<>>, !.marginRules.rules = <<>>,
              !.calculatorSettings.contingencyPercent = Num(0)]

\* the subtotal calculateBlock gives the supplied block of that id
SubtotalOfBlock(blocks, blockId) ==
  LET block == blocks[CHOOSE i \in 1..Len(blocks) : blocks[i].blockId = blockId]
  IN  calculateBlockCost(config, equipmentRates, laborRates, block, now).subtotal

\* C27: in a projection the sum over all periods of capex.total + opex.total is
\* the sum of the block subtotals over the schedule entries that lie in the
\* horizon and name a supplied block; the cash flows and the npv, irr and
\* payback are those of the same configuration without risk premiums, margin
\* rules and contingency; entries outside the horizon or naming an unknown
\* block are dropped and the call completes.
C27_AdjustmentsStayOutOfCashflow ==
  call.op = "runFullProjection" =>
    /\ call.result.status = "returned"
    /\ LET flows == call.result.cashflows
           entries == EntriesInHorizon(config, call.blocks, call.schedule)
           plain == ProjectionOver(WithoutPolicies(config), call.blocks, call.schedule, now)
       IN  /\ NSum([t \in 1..Len(flows) |-> NAdd(flows[t].capex.total, flows[t].opex.total)])
                = NSum([j \in 1..Len(entries) |->
                          SubtotalOfBlock(call.blocks, entries[j].blockId)])
           /\ flows = plain.cashflows
           /\ call.result.summary = plain.summary

\* a projection of one supplied block that carries a premium, a margin and
\* contingency, scheduled once in the horizon next to an entry that names an
\* unknown block: the cash flow adds up to the subtotal, below the grandTotal
C27_Witness ==
  /\ call.op = "runFullProjection" /\ call.result.status = "returned"
  /\ call.blocks = <<HourBlock>>
  /\ call.schedule = <<Entry("B1", 202601), Entry("B2", 202601)>>
  /\ Len(EntriesInHorizon(config, call.blocks, call.schedule)) = 1
  /\ call.result.blockCosts[1].appliedPremiums # <<>>
  /\ call.result.blockCosts[1].appliedMargins # <<>>
  /\ NGt(call.result.blockCosts[1].contingency, Num(0))
  /\ NLt(call.result.blockCosts[1].subtotal, call.result.blockCosts[1].grandTotal)
  /\ NNeg(call.result.cashflows[13].netCashflow) = call.result.blockCosts[1].subtotal

-----------------------------------------------------------------------------
(* Unit-cost calculator: the equipment operating cost                      *)

\* the categories of the breakdown, in order
BreakdownCategories ==
  <<"Labor", "Consumables", "Energy", "Maintenance", "Overhead", "Equipment CAPEX",
    "Infrastructure">>

\* the seven cost components of a result, in breakdown order
ComponentsOf(result) ==
  <<result.opexComponent.labor, result.opexComponent.consumables,
    result.opexComponent.energy, result.opexComponent.maintenance,
    result.opexComponent.overhead, result.capexComponent.equipmentDepreciation,
    result.capexComponent.infrastructureAllocation>>

\* C28: in every returned result opexComponent.total is labor + consumables +
\* energy + maintenance + overhead and subtotal is that plus the two CAPEX
\* allocations; the breakdown lists exactly those seven components, so the
\* equipment operating cost (cost per hour x mining hours) is in no total and
\* in no breakdown entry; it enters only through overhead, which is 15% of
\* (labor + equipment operating cost).
C28_EquipmentCostOnlyInOverhead ==
  Returned =>
    LET result == call.result
        opex == result.opexComponent
        equipmentCost == calculateEquipmentCost(config, equipmentRates, call.block)
    IN  /\ DOMAIN opex = {"labor", "consumables", "energy", "maintenance", "overhead", "total"}
        /\ opex.total = NAdd(NAdd(NAdd(NAdd(opex.labor, opex.consumables), opex.energy),
                                  opex.maintenance), opex.overhead)
        /\ result.subtotal =
             NAdd(opex.total, NAdd(result.capexComponent.equipmentDepreciation,
                                   result.capexComponent.infrastructureAllocation))
        /\ Len(result.breakdown) = 7
        /\ \A i \in 1..7 :
             /\ result.breakdown[i].category = BreakdownCategories[i]
             /\ result.breakdown[i].cost = ComponentsOf(result)[i]
        /\ opex.overhead = NMul(NAdd(opex.labor, equipmentCost), Rat(15, 100))

\* a valid block on a configuration with a drill and two roles: the equipment
\* operating cost is positive and finite, raises the overhead above 15% of the
\* labor cost, and is the cost of no breakdown entry
C28_Witness ==
  /\ Returned /\ call.block.tonnage > 0
  /\ LET equipmentCost == calculateEquipmentCost(config, equipmentRates, call.block)
     IN  /\ IsFinite(equipmentCost) /\ NGt(equipmentCost, Num(0))
         /\ IsFinite(call.result.grandTotal)
         /\ NGt(call.result.opexComponent.overhead,
                NMul(call.result.opexComponent.labor, Rat(15, 100)))
         /\ \A i \in 1..7 : call.result.breakdown[i].cost # equipmentCost

-----------------------------------------------------------------------------
(* Unit-cost calculator: volume discount tiers                             *)

Tier(category, minQuantity, maxQuantity, discountPercent) ==
  [category |-> category, minQuantity |-> Num(minQuantity),
   maxQuantity |-> Num(maxQuantity), discountPercent |-> Num(discountPercent)]

\* tiers that every block's tonnage falls in, and one that none does
DiscountTiers ==
  {Tier("equipment", 0, 1000, 10), Tier("labor", 1, 1000, 5), Tier("consumables", 500, 1000, 20)}

\* no tier, one tier, two tiers
TierLists ==
  {<<>>} \cup {<<tier>> : tier \in DiscountTiers}
         \cup {<<tier, other>> : tier \in DiscountTiers, other \in DiscountTiers}

DiscountConfigs ==
  {[cfg EXCEPT !.volumeDiscounts.tiers = tiers] :
     cfg \in {LiveConfig, ClockConfig}, tiers \in TierLists}

InitDiscounts == now = Today /\ \E cfg \in DiscountConfigs : Constructed(cfg)
NextDiscounts ==
  \/ \E block \in LiveBlocks \cup {HourBlock, LightBlock} :
       call = NoCall /\ CalculateBlock(block) /\ UNCHANGED first
  \/ Return
SpecDiscounts == InitDiscounts /\ [][NextDiscounts]_vars

\* C29: whatever tiers volumeDiscounts holds, a returned result has an empty
\* appliedDiscounts and every figure of it - subtotal, contingency, grandTotal,
\* the unit costs, the breakdown - is the figure computed with no tiers
\* configured: the discount adjustment is 0.
C29_TiersChangeNothing ==
  Returned =>
    /\ call.result.appliedDiscounts = <<>>
    /\ CostFigures(call.result) =
         CostFigures(calculateBlockCost([config EXCEPT !.volumeDiscounts.tiers = <<>>],
                                        equipmentRates, laborRates, call.block, now))

\* a block whose tonnage falls in an equipment tier of 10% and a labor tier of
\* 5%: the result carries no discount and a positive grandTotal
C29_Witness ==
  /\ Returned
  /\ getVolumeDiscount(config, "equipment", Num(call.block.tonnage)) = Num(10)
  /\ getVolumeDiscount(config, "labor", Num(call.block.tonnage)) = Num(5)
  /\ call.result.appliedDiscounts = <<>>
  /\ NGt(call.result.grandTotal, call.result.subtotal)

-----------------------------------------------------------------------------
(* Project cash flow: the payback figure                                   *)

\* C30: in every projection cumulativeCashflow is never positive and never
\* rises from one period to the next, and paybackMonths is 0 when the first
\* period has no scheduled cost and the number of periods otherwise, never an
\* index strictly between the two.
C30_PaybackZeroOrAllPeriods ==
  (call.op = "runFullProjection" /\ call.result.status = "returned") =>
    LET cf == call.result.cashflows
        payback == call.result.summary.paybackMonths
    IN  /\ \A i \in 1..Len(cf) : NLe(cf[i].cumulativeCashflow, Num(0))
        /\ \A i \in 1..(Len(cf) - 1) :
             NLe(cf[i + 1].cumulativeCashflow, cf[i].cumulativeCashflow)
        /\ payback = IF NEq(cf[1].netCashflow, Num(0)) THEN 0 ELSE Len(cf)

====
